---- MODULE Spec2Model ----
(***************************************************************************)
(* A model of the grant extraction pipeline of nuelwhite/GRANTED.          *)
(*                                                                         *)
(* The pipeline asks an LLM service for a JSON description of the grants   *)
(* on each source page (extract_from_gemini / extract_grant, with retries),*)
(* parses and normalises the answer (parse_and_validate, validate_enum,    *)
(* validate_enum_array), splits the records with quality_check and writes  *)
(* them with save_to_csv (run_pipeline).  Most definitions follow          *)
(* src/extract-to-csv-model2/extract_grants_to_csv.py ("model2"); the      *)
(* retry loops of src/extract-to-csv/extract_grants_to_csv.py ("v1") and   *)
(* src/semi-auto-system/extract_grants.py ("semi") are modelled beside it. *)
(*                                                                         *)
(* Specifications:                                                         *)
(*   Spec              one run of run_pipeline (model2)                    *)
(*   SpecRerun         two runs in succession on one data directory        *)
(*   SpecExtract       one call of the extraction function of each program *)
(*   SpecParse         one call of parse_and_validate                      *)
(*   SpecEnum          one call of validate_enum_array                     *)
(*   SpecQualityCheck  one call of quality_check                           *)
(***************************************************************************)
EXTENDS Integers, Sequences, FiniteSets, TLC

VARIABLES
  call,          \* the arguments of the pure function under test (fn = "none": no such call)
  ret,           \* its result, or Pending before it has been applied
  variant,       \* which program runs: "model2", "v1", "semi" ("none": a pure call)
  API_KEY,       \* os.getenv("GEMINI_API_KEY"): None or a str
  SOURCES,       \* the list of URLs loaded from config/sources_list.json
  files,         \* the data directory: file name -> content
  clock,         \* time.time(), in whole seconds
  now_utc,       \* the timestamp taken when the module was loaded
  pc,            \* where the running program stands
  i,             \* run_pipeline: position of the current url in SOURCES
  processed,     \* run_pipeline: what load_processed_urls returned
  attempt,       \* extract_from_gemini / extract_grant: the attempt about to be made
  requests,      \* the replies of the service to the requests of the latest
                 \* extraction call of the loop
  waits,         \* the backoff waits of that call, jitter left out
  raw,           \* what the extraction call returned
  all_valid,     \* run_pipeline: records accumulated as valid
  all_invalid,   \* run_pipeline: records accumulated as invalid
  high_quality,  \* run_pipeline: valid records that passed quality_check
  manual_review, \* run_pipeline: valid records that did not
  run            \* how many times the program has been started

harness == <<call, ret>>

frame == <<variant, API_KEY, SOURCES, files, clock, now_utc, pc, i, processed, attempt, requests,
           waits, raw, all_valid, all_invalid, high_quality, manual_review, run>>

vars == <<call, ret, variant, API_KEY, SOURCES, files, clock, now_utc, pc, i, processed, attempt,
          requests, waits, raw, all_valid, all_invalid, high_quality, manual_review, run>>

\* the harness of a pure call: no call, a call not yet applied, its result
NoCall == [fn |-> "none"]

Pending == [done |-> FALSE]

Returned(v) == [done |-> TRUE, val |-> v]

(***************************************************************************)
(* JSON values as Python sees them after json.loads.  A value is a record  *)
(* tagged with its Python type; each type keeps its payload in a field of  *)
(* its own.  A Python str is carried either as a TLA+ string (vocabulary   *)
(* words, field s) or as a sequence of characters (free text whose length  *)
(* and substrings matter, field c).                                        *)
(***************************************************************************)
JNull == [t |-> "null"]

JBool(b) == [t |-> "bool", b |-> b]

JNum(n) == [t |-> "num", n |-> n]

JStr(s) == [t |-> "str", s |-> s]

JTxt(c) == [t |-> "str", c |-> c]

JArr(a) == [t |-> "arr", a |-> a]

JObj(o) == [t |-> "obj", o |-> o]

IsDict(v) == v.t = "obj"

IsList(v) == v.t = "arr"

IsStr(v) == v.t = "str"

\* bool(v): None, False, 0, "", [] and {} are falsy
Truthy(v) ==
  CASE v.t = "null" -> FALSE
    [] v.t = "bool" -> v.b
    [] v.t = "num"  -> v.n # 0
    [] v.t = "str"  -> IF "s" \in DOMAIN v THEN v.s # ""
                       ELSE IF "c" \in DOMAIN v THEN v.c # <<>>
                       ELSE TRUE
    [] v.t = "arr"  -> v.a # <<>>
    [] v.t = "obj"  -> DOMAIN v.o # {}

\* x in L for a Python list L
InList(x, L) == \E k \in DOMAIN L : L[k] = x

\* k in d, d[k] for a Python dict literal written as a sequence of <<key, value>>
HasKey(d, k) == \E j \in DOMAIN d : d[j][1] = k

Lookup(d, k) == d[CHOOSE j \in DOMAIN d : d[j][1] = k][2]

(***************************************************************************)
(* The closed vocabularies and the synonym tables, copied from the source. *)
(***************************************************************************)
\* the values the prompt allows for programStatus (line 175)
ProgramStatuses == <<"ACTIVE", "CLOSED", "UPCOMING", "SUSPENDED">>

VALID_FUNDER_TYPES ==
  <<
    "FEDERAL_GRANT", "PROVINCIAL_TERRITORIAL_GRANT", "MUNICIPAL_GRANT",
    "FOUNDATION_GRANT", "CORPORATE_GRANT", "COMMUNITY_ASSOCIATION_GRANT",
    "UNIVERSITY_COLLEGE_GRANT", "ACCELERATOR_INCUBATOR_GRANT", "OTHER"
  >>

VALID_FUNDING_TYPES ==
  <<
    "GRANT", "LOAN", "EQUITY", "TAX_CREDIT", "PRIZE", "IN_KIND"
  >>

VALID_SECTORS ==
  <<
    "AGRICULTURE", "HEALTH", "EDUCATION", "ENERGY", "TECHNOLOGY",
    "MANUFACTURING", "ENVIRONMENT", "CREATIVE", "SOCIAL_SERVICES", "FINANCE",
    "LEGAL", "PROFESSIONAL_SERVICES", "TRANSPORTATION", "CONSTRUCTION",
    "HOSPITALITY", "RETAIL", "OPEN_TO_ALL", "N_A"
  >>

VALID_APPLICANT_TYPES ==
  <<
    "INDIVIDUAL", "NON_PROFIT", "FOR_PROFIT", "RESEARCH_INSTITUTION",
    "PUBLIC_ENTITY", "OPEN_TO_ALL", "N_A"
  >>

VALID_BUSINESS_STAGES ==
  <<
    "IDEA", "EARLY_STAGE", "GROWTH", "ESTABLISHED"
  >>

VALID_REVENUE_RANGES ==
  <<
    "NONE", "UNDER_50K", "BETWEEN_50K_250K", "BETWEEN_250K_1M",
    "BETWEEN_1M_5M", "ABOVE_5M"
  >>

VALID_EMPLOYEE_RANGES ==
  <<
    "SOLO", "BETWEEN_1_5", "BETWEEN_6_20", "BETWEEN_21_50", "ABOVE_50"
  >>

VALID_EQUITY_FOCUS ==
  <<
    "RURAL", "URBAN", "REMOTE", "INDIGENOUS", "WOMEN_LED", "BIPOC_LED",
    "MINORITY_LED", "YOUTH", "SENIOR", "LGBTQ_PLUS", "VETERAN", "DISABLED",
    "IMMIGRANT", "REFUGEE", "LOW_INCOME", "UNDERSERVED"
  >>

VALID_GRANT_PURPOSE ==
  <<
    "RESEARCH", "PRODUCT_DEVELOPMENT", "CAPACITY_BUILDING", "INFRASTRUCTURE",
    "PROGRAM_EXPANSION", "OPERATIONAL", "CAPITAL", "EQUIPMENT", "TRAINING",
    "COMMUNITY_ENGAGEMENT", "MARKETING", "TECHNOLOGY", "HIRING"
  >>

sector_mappings ==
  <<
    <<"HEALTHCARE", "HEALTH">>, <<"HEALTHCARE TECHNOLOGY", "HEALTH">>,
    <<"DIGITAL HEALTH", "HEALTH">>, <<"MEDICAL DEVICES", "HEALTH">>,
    <<"DIAGNOSTICS", "HEALTH">>, <<"THERAPEUTICS", "HEALTH">>,
    <<"HEALTH TECHNOLOGY", "HEALTH">>, <<"BIOMARKERS", "HEALTH">>,
    <<"MEDICAL TECHNOLOGY", "HEALTH">>, <<"HEALTHTECH", "HEALTH">>,
    <<"MEDTECH", "HEALTH">>, <<"VIRTUAL CARE", "HEALTH">>,
    <<"PRECISION HEALTH", "HEALTH">>, <<"REGENERATIVE MEDICINE", "HEALTH">>,
    <<"ADVANCED MEDICAL IMAGING", "HEALTH">>,
    <<"PERSONALIZED MEDICINE", "HEALTH">>, <<"PUBLIC HEALTH", "HEALTH">>,
    <<"HEALTH SYSTEM INNOVATION", "HEALTH">>, <<"BIOTECH", "HEALTH">>,
    <<"BIOTECHNOLOGY", "HEALTH">>, <<"PHARMA", "HEALTH">>,
    <<"PHARMACEUTICAL", "HEALTH">>, <<"LIFE SCIENCES", "HEALTH">>,
    <<"LIFE_SCIENCES", "HEALTH">>,
    <<"ARTIFICIAL INTELLIGENCE", "TECHNOLOGY">>,
    <<"MACHINE LEARNING", "TECHNOLOGY">>, <<"DATA ANALYTICS", "TECHNOLOGY">>,
    <<"REMOTE MONITORING", "TECHNOLOGY">>, <<"ROBOTICS", "TECHNOLOGY">>,
    <<"AUTOMATION", "TECHNOLOGY">>, <<"SOFTWARE", "TECHNOLOGY">>,
    <<"IT", "TECHNOLOGY">>, <<"INFORMATION TECHNOLOGY", "TECHNOLOGY">>,
    <<"INFORMATION_TECHNOLOGY", "TECHNOLOGY">>,
    <<"DIGITAL ECONOMY", "TECHNOLOGY">>, <<"DEEP TECH", "TECHNOLOGY">>,
    <<"INNOVATION", "TECHNOLOGY">>, <<"CLIMATE TECH", "ENERGY">>,
    <<"CLEANTECH", "ENERGY">>, <<"CLEAN TECHNOLOGY", "ENERGY">>,
    <<"AGTECH", "AGRICULTURE">>, <<"AGRI-FOOD", "AGRICULTURE">>,
    <<"AGRI_FOOD", "AGRICULTURE">>, <<"FINTECH", "FINANCE">>,
    <<"EDTECH", "EDUCATION">>, <<"ARTS", "CREATIVE">>,
    <<"CULTURE", "CREATIVE">>, <<"ARTS AND CULTURE", "CREATIVE">>,
    <<"PERFORMING ARTS", "CREATIVE">>, <<"VISUAL ARTS", "CREATIVE">>,
    <<"LITERARY ARTS", "CREATIVE">>, <<"MEDIA ARTS", "CREATIVE">>,
    <<"CRAFT", "CREATIVE">>, <<"DESIGN", "CREATIVE">>,
    <<"COMMUNITY ARTS", "CREATIVE">>, <<"CREATIVE INDUSTRIES", "CREATIVE">>,
    <<"CREATIVE ARTS", "CREATIVE">>, <<"TOURISM", "HOSPITALITY">>,
    <<"ADVANCED MATERIALS", "MANUFACTURING">>, <<"SCIENCE", "TECHNOLOGY">>,
    <<"ENGINEERING", "TECHNOLOGY">>,
    <<"SOCIAL SCIENCES", "SOCIAL_SERVICES">>, <<"HUMANITIES", "EDUCATION">>,
    <<"EXPORT-ORIENTED BUSINESSES", "OPEN_TO_ALL">>,
    <<"GENERAL BUSINESS INNOVATION", "OPEN_TO_ALL">>
  >>

purpose_mappings ==
  <<
    <<"INNOVATION", "RESEARCH">>, <<"RESEARCH_AND_DEVELOPMENT", "RESEARCH">>,
    <<"R&D", "RESEARCH">>, <<"RESEARCH & DEVELOPMENT", "RESEARCH">>,
    <<"VALIDATION", "RESEARCH">>, <<"CLINICAL_TRIALS", "RESEARCH">>,
    <<"PROOF_OF_CONCEPT", "RESEARCH">>,
    <<"COMMERCIALIZATION", "PRODUCT_DEVELOPMENT">>,
    <<"PROTOTYPING", "PRODUCT_DEVELOPMENT">>,
    <<"PRODUCT DEVELOPMENT", "PRODUCT_DEVELOPMENT">>,
    <<"PRODUCT_DEVELOPMENT", "PRODUCT_DEVELOPMENT">>,
    <<"BUSINESS_GROWTH", "OPERATIONAL">>,
    <<"BUSINESS GROWTH", "OPERATIONAL">>,
    <<"OPERATING SUPPORT", "OPERATIONAL">>,
    <<"PROGRAM DELIVERY", "OPERATIONAL">>,
    <<"BUSINESS_DEVELOPMENT", "OPERATIONAL">>,
    <<"BUSINESS DEVELOPMENT", "OPERATIONAL">>,
    <<"PRODUCTIVITY IMPROVEMENT", "OPERATIONAL">>,
    <<"ECONOMIC DEVELOPMENT", "OPERATIONAL">>,
    <<"PILOT_PROJECTS", "RESEARCH">>, <<"SCALING_UP", "PROGRAM_EXPANSION">>,
    <<"SCALE_UP", "PROGRAM_EXPANSION">>,
    <<"EXPANSION", "PROGRAM_EXPANSION">>,
    <<"MARKET_EXPANSION", "MARKETING">>, <<"MARKET EXPANSION", "MARKETING">>,
    <<"MARKET ENTRY & EXPANSION", "MARKETING">>,
    <<"EXPORT_DEVELOPMENT", "MARKETING">>,
    <<"HEALTH_SYSTEM_IMPROVEMENT", "CAPACITY_BUILDING">>,
    <<"CAPACITY BUILDING", "CAPACITY_BUILDING">>,
    <<"CAPACITY_BUILDING", "CAPACITY_BUILDING">>,
    <<"PROFESSIONAL DEVELOPMENT", "TRAINING">>,
    <<"TECHNOLOGY_ADOPTION", "TECHNOLOGY">>,
    <<"TECH_ADOPTION", "TECHNOLOGY">>, <<"DIGITAL_ADOPTION", "TECHNOLOGY">>,
    <<"TECHNOLOGY ADOPTION", "TECHNOLOGY">>,
    <<"MARKET_ACCESS", "MARKETING">>, <<"MARKET ACCESS", "MARKETING">>,
    <<"ARTS AND CULTURE", "COMMUNITY_ENGAGEMENT">>,
    <<"COMMUNITY DEVELOPMENT", "COMMUNITY_ENGAGEMENT">>,
    <<"JOB CREATION", "HIRING">>
  >>

equity_mappings ==
  <<
    <<"BLACK-LED", "BIPOC_LED">>, <<"BLACK LED", "BIPOC_LED">>,
    <<"BLACK", "BIPOC_LED">>, <<"RACIALIZED COMMUNITIES", "BIPOC_LED">>,
    <<"RACIALIZED GROUPS", "BIPOC_LED">>,
    <<"VISIBLE_MINORITY", "BIPOC_LED">>, <<"VISIBLE MINORITY", "BIPOC_LED">>,
    <<"MINORITY", "MINORITY_LED">>, <<"MINORITY-LED", "MINORITY_LED">>,
    <<"MINORITY LED", "MINORITY_LED">>, <<"INDIGENOUS", "INDIGENOUS">>,
    <<"INDIGENOUS_PEOPLE", "INDIGENOUS">>,
    <<"INDIGENOUS PEOPLE", "INDIGENOUS">>, <<"WOMEN-LED", "WOMEN_LED">>,
    <<"WOMEN LED", "WOMEN_LED">>, <<"WOMEN", "WOMEN_LED">>,
    <<"LGBTQ", "LGBTQ_PLUS">>, <<"LGBTQ+", "LGBTQ_PLUS">>,
    <<"LGBTQ2S+", "LGBTQ_PLUS">>, <<"LGBTQ2S", "LGBTQ_PLUS">>,
    <<"DISABLED", "DISABLED">>, <<"DISABILITY", "DISABLED">>,
    <<"PEOPLE_WITH_DISABILITIES", "DISABLED">>,
    <<"PEOPLE WITH DISABILITIES", "DISABLED">>, <<"RURAL", "RURAL">>,
    <<"URBAN", "URBAN">>, <<"REMOTE", "REMOTE">>, <<"YOUTH", "YOUTH">>,
    <<"SENIOR", "SENIOR">>, <<"SENIORS", "SENIOR">>,
    <<"IMMIGRANT", "IMMIGRANT">>, <<"IMMIGRANTS", "IMMIGRANT">>,
    <<"REFUGEE", "REFUGEE">>, <<"REFUGEES", "REFUGEE">>,
    <<"VETERAN", "VETERAN">>, <<"VETERANS", "VETERAN">>,
    <<"LOW-INCOME", "LOW_INCOME">>, <<"LOW INCOME", "LOW_INCOME">>,
    <<"UNDERSERVED", "UNDERSERVED">>
  >>

(***************************************************************************)
(* Python str methods on vocabulary words.  The words the model feeds in   *)
(* are listed in RawWords; upper() and strip() are given for each of them  *)
(* that they change, every other word of the model is already in upper     *)
(* case and has no surrounding blanks.                                     *)
(***************************************************************************)
RawWords ==
  { "FINANCE", "finance", " Finance ", "FinTech", "INNOVATION", "Women",
    "WOMEN_LED", "R&D", "NON_PROFIT", "Underwater Basket Weaving" }

\* s.upper()
Upper(s) ==
  CASE s = "finance" -> "FINANCE"
    [] s = " Finance " -> " FINANCE "
    [] s = "FinTech" -> "FINTECH"
    [] s = "Women" -> "WOMEN"
    [] s = "Underwater Basket Weaving" -> "UNDERWATER BASKET WEAVING"
    [] s = "None" -> "NONE"
    [] s = "True" -> "TRUE"
    [] s = "False" -> "FALSE"
    [] s = "federal_grant" -> "FEDERAL_GRANT"
    [] s = "Banana" -> "BANANA"
    [] s = " GRANT" -> " GRANT"
    [] OTHER -> s

\* s.strip()
Strip(s) ==
  CASE s = " Finance " -> "Finance"
    [] s = " FINANCE " -> "FINANCE"
    [] s = " GRANT" -> "GRANT"
    [] OTHER -> s

\* s.lower() for the field names validate_enum_array is given
LowerName(s) ==
  CASE s = "eligibleSectors" -> "eligiblesectors"
    [] s = "organizationType" -> "organizationtype"
    [] s = "equityFocus" -> "equityfocus"
    [] s = "grantPurpose" -> "grantpurpose"
    [] OTHER -> s

\* word in name, for the three words the mapping choice looks for
NameHas(name, word) ==
  CASE word = "sector" -> name \in {"eligiblesectors", "sector"}
    [] word = "purpose" -> name \in {"grantpurpose", "purpose"}
    [] word = "equity" -> name \in {"equityfocus", "equity"}
    [] OTHER -> FALSE

\* str(val) for the scalar values a list of raw values may hold
PyStr(val) ==
  CASE val.t = "str" -> val.s
    [] val.t = "null" -> "None"
    [] val.t = "bool" -> IF val.b THEN "True" ELSE "False"
    [] val.t = "num" -> ToString(val.n)

(***************************************************************************)
(* validate_enum(value, valid_values, field_name): the value in upper case *)
(* when that is in valid_values, None otherwise.  value.upper() raises     *)
(* AttributeError for a truthy value that is not a str.                    *)
(***************************************************************************)
Raised(e) == [raised |-> e]

IsRaised(r) == "raised" \in DOMAIN r

validate_enum(value, valid_values, field_name) ==
  IF ~Truthy(value) THEN JNull
  ELSE IF ~IsStr(value) THEN Raised("AttributeError")
  ELSE IF InList(Upper(value.s), valid_values) THEN JStr(Upper(value.s))
  ELSE JNull

(***************************************************************************)
(* validate_enum_array(values, valid_values, field_name)                   *)
(***************************************************************************)
\* the synonym table chosen from the field name (lines 645-652)
MappingsFor(field_name) ==
  IF NameHas(LowerName(field_name), "sector") THEN sector_mappings
  ELSE IF NameHas(LowerName(field_name), "purpose") THEN purpose_mappings
  ELSE IF NameHas(LowerName(field_name), "equity") THEN equity_mappings
  ELSE <<>>

\* val_upper = str(val).upper().strip()
ValUpper(val) == Strip(Upper(PyStr(val)))

\* EnumArrayStep without the closed-set test: any value is taken as it comes
EnumArrayStep_Unchecked(validated, val, valid_values, mappings) ==
  LET val_upper == ValUpper(val) IN
  IF InList(val_upper, validated) THEN validated ELSE Append(validated, val_upper)

\* EnumArrayStep without the seen test on mapped values
EnumArrayStep_NoSeen(validated, val, valid_values, mappings) ==
  LET val_upper == ValUpper(val) IN
  IF InList(val_upper, valid_values)
  THEN IF InList(val_upper, validated) THEN validated
       ELSE Append(validated, val_upper)
  ELSE IF HasKey(mappings, val_upper)
  THEN Append(validated, Lookup(mappings, val_upper))
  ELSE validated

\* one turn of the loop over values: validated is the list built so far (the
\* set seen holds exactly its elements, so membership in validated stands for it)
EnumArrayStep(validated, val, valid_values, mappings) ==
  LET val_upper == ValUpper(val) IN
  IF InList(val_upper, valid_values)
  THEN IF InList(val_upper, validated) THEN validated
       ELSE Append(validated, val_upper)
  ELSE IF HasKey(mappings, val_upper)
  THEN LET mapped == Lookup(mappings, val_upper) IN
       IF InList(mapped, validated) THEN validated
       ELSE Append(validated, mapped)
  ELSE validated

RECURSIVE EnumArrayLoop(_, _, _, _)
EnumArrayLoop(validated, values, valid_values, mappings) ==
  IF values = <<>> THEN validated
  ELSE EnumArrayLoop(EnumArrayStep(validated, Head(values), valid_values, mappings),
                     Tail(values), valid_values, mappings)

\* `if not values: return []`; a list is walked element by element; a str is
\* walked character by character, and no single character is a word of a
\* vocabulary or a key of a synonym table; a number or True is not iterable
validate_enum_array(values, valid_values, field_name) ==
  IF ~Truthy(values) THEN JArr(<<>>)
  ELSE IF IsList(values)
  THEN LET validated ==
              EnumArrayLoop(<<>>, values.a, valid_values, MappingsFor(field_name))
       IN JArr([k \in DOMAIN validated |-> JStr(validated[k])])
  ELSE IF IsStr(values) THEN JArr(<<>>)
  ELSE Raised("TypeError")

(***************************************************************************)
(* Python dict access on a JSON object.                                    *)
(***************************************************************************)
\* k in d
Has(d, k) == k \in DOMAIN d.o

\* d.get(k): None when the key is absent
Get(d, k) == IF Has(d, k) THEN d.o[k] ELSE JNull

\* d.get(k, default)
GetD(d, k, default) == IF Has(d, k) THEN d.o[k] ELSE default

\* d[k] = v
Put(d, k, v) == JObj((k :> v) @@ d.o)

(***************************************************************************)
(* parse_and_validate, from the parsed JSON value on (lines 808-867).      *)
(***************************************************************************)
\* the id of line 823, f"GRANT-{year}-{int(time.time())}_{random.randint(100,999)}":
\* a str fixed by the second it is built in and the number drawn
SynthId(sec, rnd) == [t |-> "str", syn |-> <<sec, rnd>>]

\* the fields of item["eligibility"] in the order lines 832-852 rewrite them
EligibilityFields ==
  << <<"eligibleSectors", "array", VALID_SECTORS>>,
     <<"organizationType", "array", VALID_APPLICANT_TYPES>>,
     <<"businessStage", "enum", VALID_BUSINESS_STAGES>>,
     <<"revenueRange", "enum", VALID_REVENUE_RANGES>>,
     <<"employeeRange", "enum", VALID_EMPLOYEE_RANGES>>,
     <<"equityFocus", "array", VALID_EQUITY_FOCUS>>,
     <<"grantPurpose", "array", VALID_GRANT_PURPOSE>> >>

\* the field of item["fundingStructure"] lines 857-859 rewrite
FundingFields == << <<"fundingType", "enum", VALID_FUNDING_TYPES>> >>

\* validate_enum_array(sec.get(f, []), ...) or validate_enum(sec.get(f), ...)
FieldValue(sec, f) ==
  IF f[2] = "array"
  THEN validate_enum_array(GetD(sec, f[1], JArr(<<>>)), f[3], f[1])
  ELSE validate_enum(Get(sec, f[1]), f[3], f[1])

\* the section with each field n set to vals[n], or the exception of the
\* first field whose validation raised
Rewritten(sec, fields, vals) ==
  LET bad == {n \in DOMAIN fields : IsRaised(vals[n])}
      names == {fields[n][1] : n \in DOMAIN fields}
  IN
  IF bad # {}
  THEN vals[CHOOSE n \in bad : \A m \in bad : n <= m]
  ELSE JObj([k \in DOMAIN sec.o \cup names |->
               IF k \in names
               THEN vals[CHOOSE n \in DOMAIN fields : fields[n][1] = k]
               ELSE sec.o[k]])

\* sec[f] = FieldValue(sec, f) for each field in turn; sec.get raises
\* AttributeError when sec is not a dict
ValidateSection(sec, fields) ==
  IF ~IsDict(sec) THEN Raised("AttributeError")
  ELSE Rewritten(sec, fields, [n \in DOMAIN fields |-> FieldValue(sec, fields[n])])

\* the item with its section replaced, or the exception
PutSection(item, name, sec) ==
  IF IsRaised(sec) THEN sec ELSE Put(item, name, sec)

\* lines 830-852 and 855-859: item[name] is validated when the item has it
ValidateSectionOf(item, name, fields) ==
  IF ~Has(item, name) THEN item
  ELSE PutSection(item, name, ValidateSection(item.o[name], fields))

\* lines 855-859, after the eligibility block has run or raised
FundingEnums(item) ==
  IF IsRaised(item) THEN item
  ELSE ValidateSectionOf(item, "fundingStructure", FundingFields)

\* lines 826-827 once validate_enum has returned or raised, then the sections
CoreEnums(item, funderType) ==
  IF IsRaised(funderType) THEN funderType
  ELSE FundingEnums(
         ValidateSectionOf(
           Put(Put(item, "funderType", funderType),
               "programStatus", GetD(item, "programStatus", JStr("ACTIVE"))),
           "eligibility", EligibilityFields))

\* lines 826-861 for an item that has its sourceURL and grantID
ValidateEnums(item) ==
  CoreEnums(item, validate_enum(Get(item, "funderType"), VALID_FUNDER_TYPES, "funderType"))

\* lines 821-823 and what follows: (item.get("funderName") or
\* "UNKNOWN").replace raises AttributeError for a truthy funderName that is
\* not a str, and runs only when grantID is missing
WithGrantId(item, new_id) ==
  IF /\ ~Truthy(Get(item, "grantID"))
     /\ Truthy(Get(item, "funderName"))
     /\ ~IsStr(Get(item, "funderName"))
  THEN Raised("AttributeError")
  ELSE ValidateEnums(IF Truthy(Get(item, "grantID")) THEN item
                     ELSE Put(item, "grantID", new_id))

\* the body of the try block for one item (lines 817-861): the item as it is
\* appended to valid_records, or the exception raised on the way.
\* item["sourceURL"] = ... raises TypeError for anything but a dict
ValidateItem(item, source_url, new_id) ==
  IF ~IsDict(item) THEN Raised("TypeError")
  ELSE WithGrantId(Put(item, "sourceURL", JStr(source_url)), new_id)

\* the record the except block appends to invalid_records (line 865); its
\* data_preview, str(item)[:200], is stood for by the position of the item
InvalidRecord(source_url, error, k) ==
  [source_url |-> source_url, error |-> error, data_preview |-> k]

\* lines 808-813: a dict is a list of one, anything else but a list is refused
ItemsOf(parsed) ==
  IF IsDict(parsed) THEN <<parsed>>
  ELSE IF IsList(parsed) THEN parsed.a
  ELSE <<>>

NoRecord == [none |-> TRUE]

\* what the except block appends for item k, if the try block raised
Refused(result, source_url, k) ==
  IF IsRaised(result) THEN InvalidRecord(source_url, result.raised, k) ELSE NoRecord

\* results[k] being what the try block made of items[k]: (valid_records,
\* invalid_records), or the exception that leaves the function.  The except
\* block evaluates item.get('grantID', 'N/A') for its log line before it
\* appends, which raises AttributeError out of parse_and_validate when the
\* item is not a dict.
Collected(items, results, source_url) ==
  IF \E k \in DOMAIN items : IsRaised(results[k]) /\ ~IsDict(items[k])
  THEN Raised("AttributeError")
  ELSE [valid |-> SelectSeq(results, LAMBDA r : ~IsRaised(r)),
        invalid |-> SelectSeq([k \in DOMAIN items |-> Refused(results[k], source_url, k)],
                              LAMBDA r : r # NoRecord),
        error_file |-> FALSE]

\* the loop over the items (lines 815-865); ids[k] is the id line 823 would
\* build for item k
ValidateItems(items, source_url, ids) ==
  Collected(items,
            [k \in DOMAIN items |-> ValidateItem(items[k], source_url, ids[k])],
            source_url)

\* parse_and_validate from line 808 on, the text having been parsed
ValidateParsed(parsed, source_url, ids) ==
  ValidateItems(ItemsOf(parsed), source_url, ids)

(***************************************************************************)
(* Free text: a str as its sequence of characters.                         *)
(***************************************************************************)
Rep(ch, n) == [k \in 1..n |-> ch]

Whitespace == {" ", "\n", "\t"}

UpperLetters ==
  << "A", "B", "C", "D", "E", "F", "G", "H", "I", "J", "K", "L", "M",
     "N", "O", "P", "Q", "R", "S", "T", "U", "V", "W", "X", "Y", "Z" >>

LowerLetters ==
  << "a", "b", "c", "d", "e", "f", "g", "h", "i", "j", "k", "l", "m",
     "n", "o", "p", "q", "r", "s", "t", "u", "v", "w", "x", "y", "z" >>

LowerChar(ch) ==
  IF \E k \in DOMAIN UpperLetters : UpperLetters[k] = ch
  THEN LowerLetters[CHOOSE k \in DOMAIN UpperLetters : UpperLetters[k] = ch]
  ELSE ch

\* text.lower()
LowerText(text) == [k \in DOMAIN text |-> LowerChar(text[k])]

\* text.strip()
StripText(text) ==
  LET solid == {k \in DOMAIN text : text[k] \notin Whitespace} IN
  IF solid = {} THEN <<>>
  ELSE SubSeq(text, CHOOSE k \in solid : \A j \in solid : k <= j,
                    CHOOSE k \in solid : \A j \in solid : k >= j)

\* phrase in text
Contains(text, phrase) ==
  \E k \in 1..(Len(text) - Len(phrase) + 1) :
    SubSeq(text, k, k + Len(phrase) - 1) = phrase

ClickHere == <<"c", "l", "i", "c", "k", " ", "h", "e", "r", "e">>

LearnMore == <<"l", "e", "a", "r", "n", " ", "m", "o", "r", "e">>

(***************************************************************************)
(* quality_check(grant) (lines 985-1003): True, False, or the exception    *)
(* raised: .get on a fundingStructure that is not a dict and .strip() on a *)
(* truthy programDescription that is not a str raise AttributeError.       *)
(***************************************************************************)
MinDescriptionLength == 100

\* quality_check with the length test off by one
quality_check_OffByOne(grant) ==
  IF \/ ~Truthy(Get(grant, "programName"))
     \/ ~Truthy(Get(grant, "programDescription"))
     \/ ~Truthy(Get(grant, "funderName"))
  THEN JBool(FALSE)
  ELSE
    LET fund == GetD(grant, "fundingStructure", JObj(<<>>)) IN
    IF ~IsDict(fund) THEN Raised("AttributeError")
    ELSE IF ~Truthy(Get(fund, "amountMax")) /\ ~Truthy(Get(fund, "fixedAmount"))
    THEN JBool(FALSE)
    ELSE IF ~IsStr(Get(grant, "programDescription")) THEN Raised("AttributeError")
    ELSE
      LET desc == LowerText(StripText(Get(grant, "programDescription").c)) IN
      IF \/ Len(desc) <= MinDescriptionLength
         \/ Contains(desc, ClickHere)
         \/ Contains(desc, LearnMore)
      THEN JBool(FALSE)
      ELSE JBool(TRUE)

quality_check(grant) ==
  IF \/ ~Truthy(Get(grant, "programName"))
     \/ ~Truthy(Get(grant, "programDescription"))
     \/ ~Truthy(Get(grant, "funderName"))
  THEN JBool(FALSE)
  ELSE
    LET fund == GetD(grant, "fundingStructure", JObj(<<>>)) IN
    IF ~IsDict(fund) THEN Raised("AttributeError")
    ELSE IF ~Truthy(Get(fund, "amountMax")) /\ ~Truthy(Get(fund, "fixedAmount"))
    THEN JBool(FALSE)
    ELSE IF ~IsStr(Get(grant, "programDescription")) THEN Raised("AttributeError")
    ELSE
      LET desc == LowerText(StripText(Get(grant, "programDescription").c)) IN
      IF \/ Len(desc) < MinDescriptionLength
         \/ Contains(desc, ClickHere)
         \/ Contains(desc, LearnMore)
      THEN JBool(FALSE)
      ELSE JBool(TRUE)

(***************************************************************************)
(* flatten_grant_structure(grant) (lines 870-982).                         *)
(***************************************************************************)
\* "; ".join(v): the joined text is stood for by what was joined.  A list joins
\* when all its elements are str; a str joins its characters and a dict its
\* keys; None, a number or a bool is not iterable.
PyJoin(v) ==
  CASE v.t = "arr" ->
         IF \A k \in DOMAIN v.a : IsStr(v.a[k])
         THEN [t |-> "str", joined |-> v.a]
         ELSE Raised("TypeError")
    [] v.t = "str" -> [t |-> "str", joined_chars |-> v]
    [] v.t = "obj" -> [t |-> "str", joined_keys |-> DOMAIN v.o]
    [] OTHER -> Raised("TypeError")

\* every column of the row, in the order the function builds it: the column,
\* the section of the grant it is read from ("" for the grant itself), how it
\* is read (.get with a default, or "; ".join of .get with default []), and
\* the default
FlattenColumns ==
  <<
    <<"grantID", "", "get", JStr("")>>,
    <<"programName", "", "get", JStr("")>>,
    <<"programDescription", "", "get", JStr("")>>,
    <<"funderName", "", "get", JStr("")>>,
    <<"funderType", "", "get", JStr("")>>,
    <<"programURL", "", "get", JStr("")>>,
    <<"sourceType", "", "get", JStr("MANUAL_ENTRY")>>,
    <<"sourceURL", "", "get", JStr("")>>,
    <<"programStatus", "", "get", JStr("ACTIVE")>>,
    <<"currency", "", "get", JStr("CAD")>>,
    <<"eligibleSectors", "eligibility", "join", JArr(<<>>)>>,
    <<"eligibleGeographies", "eligibility", "join", JArr(<<>>)>>,
    <<"businessStage", "eligibility", "get", JStr("")>>,
    <<"organizationType", "eligibility", "join", JArr(<<>>)>>,
    <<"revenueRange", "eligibility", "get", JStr("")>>,
    <<"employeeRange", "eligibility", "get", JStr("")>>,
    <<"eligibleActivities", "eligibility", "join", JArr(<<>>)>>,
    <<"ineligibleActivities", "eligibility", "join", JArr(<<>>)>>,
    <<"equityFocus", "eligibility", "join", JArr(<<>>)>>,
    <<"grantPurpose", "eligibility", "join", JArr(<<>>)>>,
    <<"eligibilityNotes", "eligibility", "get", JStr("")>>,
    <<"additionalEligibilityCriteria", "eligibility", "get", JStr("")>>,
    <<"fundingType", "fundingStructure", "get", JStr("")>>,
    <<"amountMin", "fundingStructure", "get", JStr("")>>,
    <<"amountMax", "fundingStructure", "get", JStr("")>>,
    <<"fixedAmount", "fundingStructure", "get", JStr("")>>,
    <<"ratePercentage", "fundingStructure", "get", JStr("")>>,
    <<"matchRequired", "fundingStructure", "get", JBool(FALSE)>>,
    <<"matchPercentage", "fundingStructure", "get", JStr("")>>,
    <<"nonRepayable", "fundingStructure", "get", JBool(TRUE)>>,
    <<"repaymentTerms", "fundingStructure", "get", JStr("")>>,
    <<"advancePayment", "fundingStructure", "get", JBool(FALSE)>>,
    <<"reimbursementFrequency", "fundingStructure", "get", JStr("")>>,
    <<"eligibleExpenseCategories", "fundingStructure", "join", JArr(<<>>)>>,
    <<"applicationOpenDate", "deadlines", "get", JStr("")>>,
    <<"applicationCloseDate", "deadlines", "get", JStr("")>>,
    <<"rollingDeadlineFlag", "deadlines", "get", JBool(FALSE)>>,
    <<"loidDeadline", "deadlines", "get", JStr("")>>,
    <<"decisionDate", "deadlines", "get", JStr("")>>,
    <<"awardStartDate", "deadlines", "get", JStr("")>>,
    <<"awardEndDate", "deadlines", "get", JStr("")>>,
    <<"renewalDeadline", "deadlines", "get", JStr("")>>,
    <<"reportingFrequency", "deadlines", "get", JStr("")>>,
    <<"keyMilestones", "deadlines", "get", JStr("")>>,
    <<"businessPlanRequired", "documentation", "get", JBool(FALSE)>>,
    <<"financialStatementsRequired", "documentation", "get", JBool(FALSE)>>,
    <<"taxReturnsRequired", "documentation", "get", JBool(FALSE)>>,
    <<"incorporationDocumentsRequired", "documentation", "get", JBool(FALSE)>>,
    <<"lettersOfSupportRequired", "documentation", "get", JBool(FALSE)>>,
    <<"researchProposalRequired", "documentation", "get", JBool(FALSE)>>,
    <<"impactAssessmentRequired", "documentation", "get", JBool(FALSE)>>,
    <<"additionalDocuments", "documentation", "join", JArr(<<>>)>>,
    <<"reportingRequirements", "compliance", "get", JStr("")>>,
    <<"auditRequirement", "compliance", "get", JStr("")>>,
    <<"siteVisitRequirement", "compliance", "get", JStr("")>>,
    <<"dataCollectionRequirement", "compliance", "get", JStr("")>>,
    <<"ipRightsClauses", "compliance", "get", JStr("")>>,
    <<"publicityRequirement", "compliance", "get", JStr("")>>,
    <<"complianceScoring", "compliance", "get", JStr("")>>,
    <<"primaryContactName", "contact", "get", JStr("")>>,
    <<"primaryContactEmail", "contact", "get", JStr("")>>,
    <<"primaryContactPhone", "contact", "get", JStr("")>>,
    <<"programManagerName", "contact", "get", JStr("")>>,
    <<"applicationPortalURL", "contact", "get", JStr("")>>,
    <<"sector", "programCategory", "get", JStr("")>>,
    <<"theme", "programCategory", "get", JStr("")>>,
    <<"pillar", "programCategory", "get", JStr("")>>,
    <<"stage", "programCategory", "get", JStr("")>>,
    <<"ediPriority", "programCategory", "get", JBool(FALSE)>>
  >>

FlatColumnNames == {FlattenColumns[k][1] : k \in DOMAIN FlattenColumns}

\* the value of one column, or the exception its expression raises; a
\* section that is present but not a dict raises AttributeError at .get
ColumnValue(grant, col) ==
  LET sec == IF col[2] = "" THEN grant ELSE GetD(grant, col[2], JObj(<<>>)) IN
  IF ~IsDict(sec) THEN Raised("AttributeError")
  ELSE IF col[3] = "join" THEN PyJoin(GetD(sec, col[1], col[4]))
  ELSE GetD(sec, col[1], col[4])

\* the row, or the exception of the first column (in the order the dict is
\* built) whose expression raises
flatten_grant_structure(grant) ==
  LET vals == [n \in DOMAIN FlattenColumns |-> ColumnValue(grant, FlattenColumns[n])]
      bad == {n \in DOMAIN FlattenColumns : IsRaised(vals[n])}
  IN
  IF bad # {}
  THEN vals[CHOOSE n \in bad : \A m \in bad : n <= m]
  ELSE JObj([c \in FlatColumnNames |->
               vals[CHOOSE n \in DOMAIN FlattenColumns : FlattenColumns[n][1] = c]])

(***************************************************************************)
(* The LLM service and the text it returns.  A request either raises or    *)
(* returns a response; response.text is None or a str, and response.parsed *)
(* (read by extract_grant only) is None or the GrantData object the SDK    *)
(* built from the text.  A text is described by its shape: the empty str,  *)
(* nothing but a code fence, prose without any JSON in it, or the          *)
(* serialisation of a JSON value, inside a ```json fence or not.           *)
(***************************************************************************)
EmptyText == [shape |-> "empty"]

FenceText == [shape |-> "fences"]

ProseText == [shape |-> "prose"]

JsonText(v, fenced) == [shape |-> "json", value |-> v, fenced |-> fenced]

\* TextTruthy taking the empty str for a text
TextTruthy_NotNone(text) == text # JNull

\* Python truth of response.text / raw
TextTruthy(text) == text # JNull /\ text # EmptyText

RaiseReply == [kind |-> "raise"]

Response(text, parsed) == [kind |-> "response", text |-> text, parsed |-> parsed]

\* model2 lines 370-399: strip, citation tags and code fences removed, cut to
\* the outermost brackets, clean_json_string
CleanModel2(text) ==
  CASE text.shape = "json" -> JsonText(text.value, FALSE)
    [] text.shape = "fences" -> EmptyText
    [] OTHER -> text

\* v1 lines 163-171: strip and, for a text starting with ```json, strip the
\* fence characters off both ends
CleanV1(text) ==
  CASE text.shape = "json" -> JsonText(text.value, FALSE)
    [] text.shape = "fences" -> EmptyText
    [] OTHER -> text

\* the default arguments of extract_from_gemini / extract_grant
retries == 3

backoff == 2

RECURSIVE Pow2(_)
Pow2(n) == IF n = 0 THEN 1 ELSE 2 * Pow2(n - 1)

\* backoff * (2 ** (attempt - 1)), the wait without its random.uniform(0, 1)
BackoffWait(k) == backoff * Pow2(k - 1)

\* MoreAttempts with a loop that runs once more
MoreAttempts_OneMore(k) == k < retries + 1

\* range(1, retries + 1) / while attempt < retries: is there an attempt after k
MoreAttempts(k) == k < retries

(***************************************************************************)
(* The data directory.                                                     *)
(***************************************************************************)
\* strftime('%Y-%m-%d_%H-%M-%S') and strftime('%Y-%m-%d') of a time
Stamp(t) == [utc |-> t]

Date(t) == [day |-> t \div 86400]

U1 == "https://a.org/grants/apply"

U2 == "https://b.org/apply"

U3 == "https://c.org/"

AllSources == <<U1, U2, U3>>

\* lines 403-419: the last path parts of the url, or the head of the domain
SafeName(url) ==
  CASE url = U1 -> "apply"
    [] url = U2 -> "apply"
    [] url = U3 -> "c"

StaticCsv == [file |-> "validated_grants.csv"]

ValidatedCsv(stamp) == [file |-> "validated_grants_", stamp |-> stamp]

InvalidCsv(stamp) == [file |-> "invalid_records_", stamp |-> stamp]

ReviewCsv(stamp) == [file |-> "manual_review_", stamp |-> stamp]

ErrorFile(t) == [file |-> "json_error_", time |-> t]

RawFile(safe_name, date, counter) ==
  [file |-> "raw", safe_name |-> safe_name, date |-> date, counter |-> counter]

Exists(fs, name) == name \in DOMAIN fs

\* open(name, "w").write(content)
WriteFile(fs, name, content) == (name :> content) @@ fs

\* FreeName without the look at what is there
FreeName_NoCounter(fs, safe_name, date, counter) == RawFile(safe_name, date, counter)

\* lines 423-429: the first of name_date.json, name_date_1.json, ... not there
RECURSIVE FreeName(_, _, _, _)
FreeName(fs, safe_name, date, counter) ==
  IF ~Exists(fs, RawFile(safe_name, date, counter))
  THEN RawFile(safe_name, date, counter)
  ELSE FreeName(fs, safe_name, date, counter + 1)

DebugFile(fs, url, t) == FreeName(fs, SafeName(url), Date(t), 0)

(***************************************************************************)
(* One call of extract_from_gemini (model2, v1) or extract_grant (semi)    *)
(* for SOURCES[i].  pc = "extract": inside the retry loop, about to make   *)
(* attempt number attempt.  Each action below is one turn of the loop: the *)
(* request, and everything up to the next request or the return.           *)
(***************************************************************************)
Unset == [unset |-> TRUE]

\* NextAttempt with no sleep after the last attempt
NextAttempt_NoLastWait(slept, failure) ==
  /\ IF MoreAttempts(attempt)
     THEN /\ waits' = waits \o slept
          /\ clock' = IF slept = <<>> THEN clock ELSE clock + slept[1]
          /\ attempt' = attempt + 1
          /\ UNCHANGED <<pc, raw>>
     ELSE /\ pc' = "extracted"
          /\ raw' = failure
          /\ UNCHANGED <<attempt, waits, clock>>
  /\ UNCHANGED files

\* the except block (sleep for the backoff wait) or a bare continue
\* (slept = <<>>), then the next turn of the loop or the statement after it
NextAttempt(slept, failure) ==
  /\ waits' = waits \o slept
  /\ clock' = IF slept = <<>> THEN clock ELSE clock + slept[1]
  /\ IF MoreAttempts(attempt)
     THEN /\ attempt' = attempt + 1
          /\ UNCHANGED <<pc, raw>>
     ELSE /\ pc' = "extracted"
          /\ raw' = failure
          /\ UNCHANGED attempt
  /\ UNCHANGED files

\* return value
ReturnRaw(value, fs) ==
  /\ raw' = value
  /\ files' = fs
  /\ pc' = "extracted"
  /\ UNCHANGED <<attempt, waits, clock>>

\* model2 lines 351-443
RequestModel2(replies) ==
  /\ variant = "model2"
  /\ pc = "extract"
  /\ \E reply \in replies :
       /\ requests' = Append(requests, reply)
       /\ IF reply.kind = "raise"
          THEN NextAttempt(<<BackoffWait(attempt)>>, JNull)
          ELSE IF ~TextTruthy(reply.text)
          THEN NextAttempt(<<>>, JNull)
          ELSE LET raw_text == CleanModel2(reply.text) IN
               ReturnRaw(raw_text,
                         WriteFile(files, DebugFile(files, SOURCES[i], clock), raw_text))
  /\ UNCHANGED <<harness, variant, API_KEY, SOURCES, now_utc, i, processed, all_valid,
                 all_invalid, high_quality, manual_review, run>>

\* v1 lines 146-181: response.text.strip() raises AttributeError when the
\* text is None, which the except block takes like any failed request
RequestV1(replies) ==
  /\ variant = "v1"
  /\ pc = "extract"
  /\ \E reply \in replies :
       /\ requests' = Append(requests, reply)
       /\ IF reply.kind = "raise" \/ reply.text = JNull
          THEN NextAttempt(<<BackoffWait(attempt)>>, JNull)
          ELSE ReturnRaw(CleanV1(reply.text), files)
  /\ UNCHANGED <<harness, variant, API_KEY, SOURCES, now_utc, i, processed, all_valid,
                 all_invalid, high_quality, manual_review, run>>

\* the dict extract_grant returns when all attempts failed (line 137)
ExtractionFailed(url) ==
  JObj([source_url |-> JStr(url), error |-> JStr("Extraction failed after retries")])

\* semi lines 94-137: response.parsed.model_dump() raises AttributeError when
\* the SDK could not build a GrantData from the text
RequestSemi(replies) ==
  /\ variant = "semi"
  /\ pc = "extract"
  /\ \E reply \in replies :
       /\ requests' = Append(requests, reply)
       /\ IF reply.kind = "raise" \/ reply.parsed = JNull
          THEN NextAttempt(<<BackoffWait(attempt)>>, ExtractionFailed(SOURCES[i]))
          ELSE ReturnRaw(Put(reply.parsed, "source_url", JStr(SOURCES[i])), files)
  /\ UNCHANGED <<harness, variant, API_KEY, SOURCES, now_utc, i, processed, all_valid,
                 all_invalid, high_quality, manual_review, run>>

(***************************************************************************)
(* parse_and_validate(raw_json, source_url) (model2 lines 678-867).        *)
(***************************************************************************)
ParseFailed == [failed |-> TRUE]

\* json.loads and, when it raises JSONDecodeError, the five repair strategies
\* (lines 689-787): the value, or ParseFailed when nothing parsed
LoadJson(raw_json) ==
  IF raw_json.shape = "json" THEN raw_json.value ELSE ParseFailed

\* (valid_records, invalid_records) and whether the json_error file of lines
\* 789-806 was written, or the exception that leaves the function
parse_and_validate(raw_json, source_url, ids) ==
  IF ~TextTruthy(raw_json)
  THEN [valid |-> <<>>, invalid |-> <<>>, error_file |-> FALSE]
  ELSE IF LoadJson(raw_json) = ParseFailed
  THEN [valid |-> <<>>, invalid |-> <<>>, error_file |-> TRUE]
  ELSE ValidateParsed(LoadJson(raw_json), source_url, ids)

\* e.pos of the JSONDecodeError json.loads raised: a text with no JSON in it
\* fails at its first character
ErrorPos(raw_json) == 0

\* raw_json[max(0, pos - width):min(len(raw_json), pos + width)], stood for
\* by the text and the two ends of the slice before the upper one is cut to
\* the length of the text
ContextAround(raw_json, pos, width) ==
  [slice_of |-> raw_json, from |-> IF pos - width > 0 THEN pos - width ELSE 0,
   upto |-> pos + width]

\* the characters line 799 keeps on either side of the error position
ContextWidth == 200

\* ErrorReport with the payload left out
ErrorReport_NoPayload(source_url, raw_json) ==
  [source |-> source_url, error_position |-> ErrorPos(raw_json),
   context |-> ContextAround(raw_json, ErrorPos(raw_json), ContextWidth),
   raw_json |-> EmptyText]

\* what lines 792-804 write to the json_error file
ErrorReport(source_url, raw_json) ==
  [source |-> source_url, error_position |-> ErrorPos(raw_json),
   context |-> ContextAround(raw_json, ErrorPos(raw_json), ContextWidth),
   raw_json |-> raw_json]

\* the numbers random.randint(100, 999) is let to draw
RandChoices == {100, 101}

\* the ids line 823 can build for the items of a text parsed at time t
IdChoices(raw_json, t) ==
  LET parsed == IF TextTruthy(raw_json) THEN LoadJson(raw_json) ELSE ParseFailed
      n == IF parsed = ParseFailed THEN 0 ELSE Len(ItemsOf(parsed))
  IN [1..n -> {SynthId(t, rnd) : rnd \in RandChoices}]

(***************************************************************************)
(* CSV files: the columns of the header and the rows under it.             *)
(***************************************************************************)
Csv(columns, rows) == [columns |-> columns, rows |-> rows]

\* DataFrame(records).to_csv(name, mode="a", header=not os.path.exists(name))
AppendCsv(fs, name, columns, rows) ==
  IF Exists(fs, name)
  THEN WriteFile(fs, name, Csv(fs[name].columns, fs[name].rows \o rows))
  ELSE WriteFile(fs, name, Csv(columns, rows))

\* FlattenAll with the rows in the reverse order of the records
FlattenAll_Reversed(records, rows) ==
  [rows |-> rows \o [k \in 1..Len(records) |->
                       flatten_grant_structure(records[Len(records) + 1 - k])]]

\* [flatten_grant_structure(r) for r in records]
RECURSIVE FlattenAll(_, _)
FlattenAll(records, rows) ==
  IF records = <<>> THEN [rows |-> rows]
  ELSE LET flat == flatten_grant_structure(Head(records)) IN
       IF IsRaised(flat) THEN flat
       ELSE FlattenAll(Tail(records), Append(rows, flat))

\* lines 1023-1028: the invalid records file, written with mode "w"
WriteInvalid(fs, invalid_records, stamp) ==
  IF invalid_records # <<>>
  THEN WriteFile(fs, InvalidCsv(stamp),
                 Csv(UNION {DOMAIN invalid_records[k] : k \in DOMAIN invalid_records},
                     invalid_records))
  ELSE fs

\* lines 1016-1028, the records having been flattened or the flattening
\* having raised
WriteRecords(flattened_records, invalid_records, fs, stamp) ==
  IF IsRaised(flattened_records) THEN flattened_records
  ELSE [fs |-> WriteInvalid(AppendCsv(fs, ValidatedCsv(stamp), FlatColumnNames,
                                      flattened_records.rows),
                            invalid_records, stamp)]

\* save_to_csv (lines 1006-1028): the data directory afterwards, or the
\* exception raised before anything was written
save_to_csv(valid_records, invalid_records, fs, stamp) ==
  IF valid_records = <<>> THEN [fs |-> fs]
  ELSE WriteRecords(FlattenAll(valid_records, <<>>), invalid_records, fs, stamp)

\* load_processed_urls (lines 1031-1044): read_csv raises when the file has
\* no sourceURL column, and the except block returns the empty set
load_processed_urls(fs) ==
  IF ~Exists(fs, StaticCsv) THEN {}
  ELSE IF "sourceURL" \notin fs[StaticCsv].columns THEN {}
  ELSE LET rows == fs[StaticCsv].rows IN
       { Get(rows[k], "sourceURL").s :
           k \in {n \in DOMAIN rows : Get(rows[n], "sourceURL") # JNull} }

\* SplitLoop with every grant appended to high_quality
SplitLoop_AllAccepted(grants, hq, mr) == [high_quality |-> hq \o grants, manual_review |-> mr]

\* lines 1085-1091: the two lists, or the exception quality_check raised
RECURSIVE SplitLoop(_, _, _)
SplitLoop(grants, hq, mr) ==
  IF grants = <<>> THEN [high_quality |-> hq, manual_review |-> mr]
  ELSE LET q == quality_check(Head(grants)) IN
       IF IsRaised(q) THEN q
       ELSE IF q.b THEN SplitLoop(Tail(grants), Append(hq, Head(grants)), mr)
       ELSE SplitLoop(Tail(grants), hq, Append(mr, Head(grants)))

(***************************************************************************)
(* run_pipeline (model2 lines 1047-1109).                                  *)
(*   pc = "start"      the module is loaded, run_pipeline is about to run  *)
(*        "loop"       at the head of the for loop, SOURCES[i] is next     *)
(*        "extract"    inside extract_from_gemini                          *)
(*        "extracted"  extract_from_gemini has returned raw                *)
(*        "save"       the records are split                               *)
(*        "done"       run_pipeline has returned                           *)
(*        "crashed"    an exception has left run_pipeline                  *)
(*        "not_loaded" the module raised before run_pipeline was called    *)
(***************************************************************************)
\* HasApiKey with the test of line 1051 left out
HasApiKey_Always(key) == TRUE

\* line 1051: if not API_KEY
HasApiKey(key) == Truthy(key)

\* lines 1051-1053: without a key run_pipeline returns at once, if it is
\* called at all: genai.Client(api_key=None) of line 66 is let to raise
\* while the module is loaded
MissingApiKey ==
  /\ variant = "model2"
  /\ pc = "start"
  /\ ~HasApiKey(API_KEY)
  /\ \E loaded \in BOOLEAN : pc' = IF loaded THEN "done" ELSE "not_loaded"
  /\ UNCHANGED <<harness, variant, API_KEY, SOURCES, files, clock, now_utc, i, processed,
                 attempt, requests, waits, raw, all_valid, all_invalid, high_quality,
                 manual_review, run>>

\* lines 1055-1060
StartRun ==
  /\ variant = "model2"
  /\ pc = "start"
  /\ HasApiKey(API_KEY)
  /\ processed' = load_processed_urls(files)
  /\ all_valid' = <<>>
  /\ all_invalid' = <<>>
  /\ i' = 1
  /\ pc' = "loop"
  /\ UNCHANGED <<harness, variant, API_KEY, SOURCES, files, clock, now_utc, attempt, requests,
                 waits, raw, high_quality, manual_review, run>>

\* LoopSkip for a URL the run has met before as well
LoopSkip_SeenInRun ==
  /\ pc = "loop"
  /\ i <= Len(SOURCES)
  /\ SOURCES[i] \in processed \cup {SOURCES[j] : j \in 1..(i - 1)}
  /\ i' = i + 1
  /\ UNCHANGED <<harness, variant, API_KEY, SOURCES, files, clock, now_utc, pc, processed,
                 attempt, requests, waits, raw, all_valid, all_invalid, high_quality,
                 manual_review, run>>

\* lines 1063-1065
LoopSkip ==
  /\ pc = "loop"
  /\ i <= Len(SOURCES)
  /\ SOURCES[i] \in processed
  /\ i' = i + 1
  /\ UNCHANGED <<harness, variant, API_KEY, SOURCES, files, clock, now_utc, pc, processed,
                 attempt, requests, waits, raw, all_valid, all_invalid, high_quality,
                 manual_review, run>>

\* LoopExtract with the test of line 1063 left out
LoopExtract_Always ==
  /\ pc = "loop"
  /\ i <= Len(SOURCES)
  /\ pc' = "extract"
  /\ attempt' = 1
  /\ requests' = <<>>
  /\ waits' = <<>>
  /\ raw' = Unset
  /\ UNCHANGED <<harness, variant, API_KEY, SOURCES, files, clock, now_utc, i, processed,
                 all_valid, all_invalid, high_quality, manual_review, run>>

\* line 1070: the call of extract_from_gemini(url)
LoopExtract ==
  /\ pc = "loop"
  /\ i <= Len(SOURCES)
  /\ SOURCES[i] \notin processed
  /\ pc' = "extract"
  /\ attempt' = 1
  /\ requests' = <<>>
  /\ waits' = <<>>
  /\ raw' = Unset
  /\ UNCHANGED <<harness, variant, API_KEY, SOURCES, files, clock, now_utc, i, processed,
                 all_valid, all_invalid, high_quality, manual_review, run>>

\* FailureRecord leaving no record
FailureRecord_None(url) == <<>>

\* what line 1072 appends to all_invalid
FailureRecord(url) == <<[source_url |-> url, error |-> "Gemini extraction failed"]>>

\* lines 1071-1073
ExtractFailed ==
  /\ variant = "model2"
  /\ pc = "extracted"
  /\ ~TextTruthy(raw)
  /\ all_invalid' = all_invalid \o FailureRecord(SOURCES[i])
  /\ i' = i + 1
  /\ pc' = "loop"
  /\ UNCHANGED <<harness, variant, API_KEY, SOURCES, files, clock, now_utc, processed, attempt,
                 requests, waits, raw, all_valid, high_quality, manual_review, run>>

\* time.sleep(2) of line 1082
RateLimitDelay == 2

\* lines 1076-1082
ParseAndAggregate ==
  /\ variant = "model2"
  /\ pc = "extracted"
  /\ TextTruthy(raw)
  /\ \E ids \in IdChoices(raw, clock) :
     \E r \in {parse_and_validate(raw, SOURCES[i], ids)} :
       IF IsRaised(r)
       THEN /\ pc' = "crashed"
            /\ UNCHANGED <<files, clock, i, all_valid, all_invalid>>
       ELSE /\ all_valid' = all_valid \o r.valid
            /\ all_invalid' = all_invalid \o r.invalid
            /\ files' = IF r.error_file
                        THEN WriteFile(files, ErrorFile(clock), ErrorReport(SOURCES[i], raw))
                        ELSE files
            /\ clock' = clock + RateLimitDelay
            /\ i' = i + 1
            /\ pc' = "loop"
  /\ UNCHANGED <<harness, variant, API_KEY, SOURCES, now_utc, processed, attempt, requests,
                 waits, raw, high_quality, manual_review, run>>

\* lines 1085-1091
Partition ==
  /\ pc = "loop"
  /\ i > Len(SOURCES)
  /\ \E r \in {SplitLoop(all_valid, <<>>, <<>>)} :
     IF IsRaised(r)
     THEN /\ pc' = "crashed"
          /\ UNCHANGED <<high_quality, manual_review>>
     ELSE /\ high_quality' = r.high_quality
          /\ manual_review' = r.manual_review
          /\ pc' = "save"
  /\ requests' = <<>>
  /\ waits' = <<>>
  /\ UNCHANGED <<harness, variant, API_KEY, SOURCES, files, clock, now_utc, i, processed,
                 attempt, raw, all_valid, all_invalid, run>>

\* lines 1094-1101
Save ==
  /\ pc = "save"
  /\ \E saved \in {save_to_csv(high_quality, all_invalid, files, now_utc)} :
     \E flattened_review \in {FlattenAll(manual_review, <<>>)} :
       IF IsRaised(saved)
       THEN /\ pc' = "crashed"
            /\ UNCHANGED files
       ELSE IF manual_review = <<>>
       THEN /\ files' = saved.fs
            /\ pc' = "done"
       ELSE IF IsRaised(flattened_review)
       THEN /\ files' = saved.fs
            /\ pc' = "crashed"
       ELSE /\ files' = WriteFile(saved.fs, ReviewCsv(now_utc),
                                  Csv(FlatColumnNames, flattened_review.rows))
            /\ pc' = "done"
  /\ UNCHANGED <<harness, variant, API_KEY, SOURCES, clock, now_utc, i, processed, attempt,
                 requests, waits, raw, all_valid, all_invalid, high_quality,
                 manual_review, run>>

\* the program is started again on the same data directory: the module is
\* loaded anew and takes a new timestamp (lines 31-32)
Restart ==
  /\ pc \in {"done", "crashed"}
  /\ run = 1
  /\ run' = run + 1
  /\ \E passed \in 0..1 :
       /\ clock' = clock + passed
       /\ now_utc' = Stamp(clock + passed)
  /\ pc' = "start"
  /\ i' = 0
  /\ processed' = {}
  /\ attempt' = 0
  /\ requests' = <<>>
  /\ waits' = <<>>
  /\ raw' = Unset
  /\ all_valid' = <<>>
  /\ all_invalid' = <<>>
  /\ high_quality' = <<>>
  /\ manual_review' = <<>>
  /\ UNCHANGED <<harness, variant, API_KEY, SOURCES, files>>

(***************************************************************************)
(* What the service is let to answer.                                      *)
(***************************************************************************)
GoodDescription == JTxt(Rep("a", MinDescriptionLength))

\* a grant that passes quality_check
GoodGrant ==
  JObj([grantID |-> JStr("G-1"), programName |-> JStr("Test Grant"),
        programDescription |-> GoodDescription, funderName |-> JStr("Foo Foundation"),
        funderType |-> JStr("federal_grant"),
        fundingStructure |-> JObj([amountMax |-> JNum(5000)])])

\* the same grant without a grantID
GrantWithoutId ==
  JObj([programName |-> JStr("Test Grant"), programDescription |-> GoodDescription,
        funderName |-> JStr("Foo Foundation"),
        fundingStructure |-> JObj([amountMax |-> JNum(5000)])])

\* a grant with a description too short for quality_check
ShortGrant == Put(GoodGrant, "programDescription", JTxt(Rep("a", 3)))

\* items that make a later stage raise
NumberDescriptionGrant == Put(GoodGrant, "programDescription", JNum(5))

NullGeographiesGrant ==
  Put(GoodGrant, "eligibility", JObj([eligibleGeographies |-> JNull]))

NullEligibilityGrant == Put(GoodGrant, "eligibility", JNull)

GoodText == JsonText(JArr(<<GoodGrant>>), TRUE)

Texts ==
  { GoodText,
    JsonText(JArr(<<GrantWithoutId, ShortGrant, NullEligibilityGrant>>), FALSE),
    JsonText(JArr(<<JStr("FINANCE")>>), FALSE),
    JsonText(JArr(<<NumberDescriptionGrant>>), FALSE),
    JsonText(JArr(<<NullGeographiesGrant>>), TRUE),
    ProseText,
    FenceText }

Service ==
  {RaiseReply, Response(JNull, JNull), Response(EmptyText, JNull)} \cup
  {Response(text, JNull) : text \in Texts}

\* a service that either fails or describes one good grant
LeanService == {RaiseReply, Response(GoodText, JNull)}

\* what response.parsed.model_dump() gives for a text that fits GrantData
GrantDump == JObj([title |-> JStr("Test Grant")])

\* response.parsed goes with the text: None unless the text is JSON, and
\* then either None (the JSON does not fit GrantData) or the parsed object
SemiService ==
  { RaiseReply, Response(JNull, JNull), Response(EmptyText, JNull),
    Response(ProseText, JNull),
    Response(JsonText(JObj([title |-> JNum(5)]), FALSE), JNull),
    Response(JsonText(GrantDump, FALSE), GrantDump) }

(***************************************************************************)
(* The data directory before the first run.                               *)
(***************************************************************************)
MaxSources == 2

SourceLists == {SubSeq(AllSources, 1, n) : n \in 0..MaxSources}

\* config/sources_list.json: not there, a JSON object without the key
\* "sources", or one with a list of URLs under it
ConfigMissing == [missing |-> TRUE]

ConfigFiles ==
  {ConfigMissing, [version |-> 1]} \cup {[sources |-> urls] : urls \in SourceLists}

\* lines 53-59: json.load(f).get("sources", []), and [] when open raises
\* FileNotFoundError
LoadSources(config) ==
  IF config = ConfigMissing THEN <<>>
  ELSE IF "sources" \in DOMAIN config THEN config.sources
  ELSE <<>>

\* the environment variable is not set, is set to the empty str, or holds a key
ApiKeys == {JNull, JStr(""), JStr("key")}

InitialFiles ==
  { <<>>,
    WriteFile(<<>>, StaticCsv, Csv({"sourceURL"}, <<JObj([sourceURL |-> JStr(U1)])>>)),
    WriteFile(<<>>, StaticCsv, Csv({"url"}, <<JObj([url |-> JStr(U1)])>>)) }

\* no pure call is under way
NoHarness ==
  /\ call = NoCall
  /\ ret = Pending

\* no program is running
NoFrame ==
  /\ variant = "none"
  /\ API_KEY = JNull
  /\ SOURCES = <<>>
  /\ files = <<>>
  /\ clock = 0
  /\ now_utc = Stamp(0)
  /\ pc = "idle"
  /\ i = 0
  /\ processed = {}
  /\ attempt = 0
  /\ requests = <<>>
  /\ waits = <<>>
  /\ raw = Unset
  /\ all_valid = <<>>
  /\ all_invalid = <<>>
  /\ high_quality = <<>>
  /\ manual_review = <<>>
  /\ run = 0

\* the timestamp of the first run
FirstStamp == Stamp(0)

\* the model2 program loaded and about to call run_pipeline
Init ==
  /\ NoHarness
  /\ variant = "model2"
  /\ API_KEY \in ApiKeys
  /\ SOURCES \in {LoadSources(config) : config \in ConfigFiles}
  /\ files \in InitialFiles
  /\ clock = 0
  /\ now_utc = FirstStamp
  /\ pc = "start"
  /\ i = 0
  /\ processed = {}
  /\ attempt = 0
  /\ requests = <<>>
  /\ waits = <<>>
  /\ raw = Unset
  /\ all_valid = <<>>
  /\ all_invalid = <<>>
  /\ high_quality = <<>>
  /\ manual_review = <<>>
  /\ run = 1

Next ==
  \/ MissingApiKey
  \/ StartRun
  \/ LoopSkip
  \/ LoopExtract
  \/ RequestModel2(Service)
  \/ ExtractFailed
  \/ ParseAndAggregate
  \/ Partition
  \/ Save

Spec == Init /\ [][Next]_vars

\* two runs in succession on the same source list and data directory
NextRerun ==
  \/ MissingApiKey
  \/ StartRun
  \/ LoopSkip
  \/ LoopExtract
  \/ RequestModel2(LeanService)
  \/ ExtractFailed
  \/ ParseAndAggregate
  \/ Partition
  \/ Save
  \/ Restart

SpecRerun == Init /\ [][NextRerun]_vars

\* one call of the extraction function of each program
InitExtract ==
  /\ NoHarness
  /\ variant \in {"model2", "v1", "semi"}
  /\ API_KEY = JStr("key")
  /\ SOURCES \in {<<U1>>, <<U3>>}
  /\ files = <<>>
  /\ clock = 0
  /\ now_utc = Stamp(0)
  /\ pc = "extract"
  /\ i = 1
  /\ processed = {}
  /\ attempt = 1
  /\ requests = <<>>
  /\ waits = <<>>
  /\ raw = Unset
  /\ all_valid = <<>>
  /\ all_invalid = <<>>
  /\ high_quality = <<>>
  /\ manual_review = <<>>
  /\ run = 1

NextExtract ==
  \/ RequestModel2(Service)
  \/ RequestV1(Service)
  \/ RequestSemi(SemiService)

SpecExtract == InitExtract /\ [][NextExtract]_vars

(***************************************************************************)
(* Calls of the pure functions: the arguments are drawn in the initial     *)
(* state and the function is applied in one step.                          *)
(***************************************************************************)
MaxValues == 3

RawValues == {JStr(w) : w \in RawWords} \cup {JNull, JNum(5)}

ValueLists == UNION {[1..n -> RawValues] : n \in 0..MaxValues}

\* the (closed set, field name) pairs of the four calls in parse_and_validate
EnumArrayCalls ==
  { <<VALID_SECTORS, "eligibleSectors">>,
    <<VALID_APPLICANT_TYPES, "organizationType">>,
    <<VALID_EQUITY_FOCUS, "equityFocus">>,
    <<VALID_GRANT_PURPOSE, "grantPurpose">> }

InitEnum ==
  /\ call \in { [fn |-> "validate_enum_array", values |-> JArr(v),
                 valid_values |-> p[1], field_name |-> p[2]] :
                v \in ValueLists, p \in EnumArrayCalls }
  /\ ret = Pending
  /\ NoFrame

ApplyEnumArray ==
  /\ call.fn = "validate_enum_array"
  /\ ~ret.done
  /\ ret' = Returned(validate_enum_array(call.values, call.valid_values, call.field_name))
  /\ UNCHANGED <<call, frame>>

NextEnum == ApplyEnumArray

SpecEnum == InitEnum /\ [][NextEnum]_vars

(***************************************************************************)
(* Calls of quality_check: the records are those ValidateItem returns for  *)
(* items built from the choices below (Absent: the key is not in the item).*)
(***************************************************************************)
Absent == [t |-> "absent"]

PutOpt(d, k, v) == IF v = Absent THEN d ELSE Put(d, k, v)

MaxPad == 2

\* a text of n characters: lead blanks, the phrase, filler, trail blanks
Description(n, lead, phrase, trail) ==
  Rep(" ", lead) \o phrase \o Rep("a", n - lead - Len(phrase) - trail) \o Rep(" ", trail)

Phrases ==
  { <<>>, ClickHere, LearnMore,
    <<"C", "l", "i", "c", "k", " ", "H", "e", "r", "e">> }

DescriptionChoices ==
  {Absent, JNull, JTxt(<<>>), JNum(5)} \cup
  { JTxt(Description(n, lead, phrase, trail)) :
      n \in (MinDescriptionLength - 1)..(MinDescriptionLength + 1),
      lead \in 0..MaxPad, phrase \in Phrases, trail \in 0..MaxPad }

NameChoices == {Absent, JNull, JStr(""), JStr("Test Grant")}

FunderChoices == {Absent, JStr("Foo Foundation")}

FundingChoices ==
  { Absent, JObj(<<>>), JObj([amountMax |-> JNum(5000)]), JObj([amountMax |-> JNum(0)]),
    JObj([amountMax |-> JNull, fixedAmount |-> JNum(100)]) }

QualityCheckItems ==
  { PutOpt(PutOpt(PutOpt(PutOpt(JObj(<<>>), "programName", n),
                         "programDescription", d), "funderName", f),
           "fundingStructure", s) :
      n \in NameChoices, d \in DescriptionChoices, f \in FunderChoices,
      s \in FundingChoices }

InitQualityCheck ==
  /\ call \in { [fn |-> "quality_check",
                 grant |-> ValidateItem(item, "u1", SynthId(1, 100))] :
                item \in QualityCheckItems }
  /\ ret = Pending
  /\ NoFrame

ApplyQualityCheck ==
  /\ call.fn = "quality_check"
  /\ ~ret.done
  /\ ret' = Returned(quality_check(call.grant))
  /\ UNCHANGED <<call, frame>>

NextQualityCheck == ApplyQualityCheck

SpecQualityCheck == InitQualityCheck /\ [][NextQualityCheck]_vars


(***************************************************************************)
(* Calls of parse_and_validate on the text of a JSON value: a list of up   *)
(* to MaxItems items, or a value of another top-level shape.               *)
(***************************************************************************)
MaxItems == 2

ItemChoices ==
  { GoodGrant, GrantWithoutId, ShortGrant, NullEligibilityGrant, NullGeographiesGrant,
    JObj([funderName |-> JStr("Foo Foundation")]),
    Put(GoodGrant, "programName", JNum(5)),
    Put(GoodGrant, "programStatus", JStr("Banana")),
    Put(GoodGrant, "funderType", JNum(5)),
    Put(GoodGrant, "fundingStructure",
        JObj([amountMax |-> JNum(5000), fundingType |-> JStr(" GRANT")])),
    Put(GoodGrant, "eligibility",
        JObj([eligibleSectors |-> JArr(<<JStr("FinTech"), JStr("Underwater Basket Weaving")>>),
              businessStage |-> JStr("Banana"),
              organizationType |-> JArr(<<JStr("NON_PROFIT")>>)])),
    JStr("FINANCE"), JNum(5), JNull, JArr(<<>>) }

ParsedChoices ==
  {JArr(a) : a \in UNION {[1..n -> ItemChoices] : n \in 0..MaxItems}} \cup
  {GoodGrant, JNum(5), JNull, JStr("FINANCE")}

RawJsonChoices == {JsonText(v, FALSE) : v \in ParsedChoices} \cup {ProseText}

\* the ids line 823 builds, one for each position
ParseIds == [k \in 1..MaxItems |-> SynthId(0, 100 + k)]

InitParse ==
  /\ call \in { [fn |-> "parse_and_validate", raw_json |-> t, source_url |-> U1,
                 ids |-> ParseIds] : t \in RawJsonChoices }
  /\ ret = Pending
  /\ NoFrame

ApplyParse ==
  /\ call.fn = "parse_and_validate"
  /\ ~ret.done
  /\ ret' = Returned(parse_and_validate(call.raw_json, call.source_url, call.ids))
  /\ UNCHANGED <<call, frame>>

NextParse == ApplyParse

SpecParse == InitParse /\ [][NextParse]_vars

(***************************************************************************)
(* Properties of two runs in succession, checked under SpecRerun.          *)
(***************************************************************************)
\* the rows of a file of the data directory, none when it is not there
RowsOf(name) == IF Exists(files, name) THEN files[name].rows ELSE <<>>

\* the accepted-records output of the first run holds a row for every source
FirstRunAcceptedEverySource ==
  \A n \in DOMAIN SOURCES :
    \E k \in DOMAIN RowsOf(ValidatedCsv(FirstStamp)) :
      Get(RowsOf(ValidatedCsv(FirstStamp))[k], "sourceURL") = JStr(SOURCES[n])

\* C1: when the first of two runs in succession on the same source list and
\* data directory accepted at least one record of every source, the second
\* run issues no extraction request and adds no row to the accepted-records
\* output.
C1_IdempotentRerun ==
  (run = 2 /\ FirstRunAcceptedEverySource)
    => /\ pc # "extract"
       /\ requests = <<>>
       /\ RowsOf(ValidatedCsv(now_utc)) = <<>>

(***************************************************************************)
(* Properties of one extraction call, checked under SpecExtract.           *)
(***************************************************************************)
\* the reply is a response with a non-empty text
HasText(reply) == reply.kind = "response" /\ TextTruthy(reply.text)

\* the reply is one the running program returns on: a non-empty text and,
\* for extract_grant, an object the SDK parsed from it
Usable(reply) == HasText(reply) /\ (variant = "semi" => reply.parsed # JNull)

\* C2: one call of extract_from_gemini / extract_grant issues at most retries
\* requests, and none after the first reply that holds a non-empty text
\* (for extract_grant: a non-empty text the SDK parsed into a GrantData).
C2_RetryBound ==
  /\ Len(requests) <= retries
  /\ \A k \in 1..(Len(requests) - 1) : ~Usable(requests[k])

\* extract_grant has returned the grant of its third reply, after a first
\* reply whose text was not empty but did not parse
C2_Witness ==
  /\ variant = "semi"
  /\ pc = "extracted"
  /\ Len(requests) = retries
  /\ HasText(requests[1])
  /\ Usable(requests[retries])
  /\ raw = Put(GrantDump, "source_url", JStr(SOURCES[i]))

\* C2 as stated: no request follows a reply with a non-empty text, in any of
\* the three programs.
C2_AsStated ==
  /\ Len(requests) <= retries
  /\ \A k \in 1..(Len(requests) - 1) : ~HasText(requests[k])

(***************************************************************************)
(* Properties of run_pipeline, checked under Spec.                         *)
(***************************************************************************)
\* extract_from_gemini has returned after retries attempts that all raised or
\* came back without text
AllAttemptsFailed ==
  /\ Len(requests) = retries
  /\ \A k \in DOMAIN requests : ~HasText(requests[k])

\* C3: when every attempt for a URL has failed, extract_from_gemini returns
\* None and the next step of run_pipeline adds exactly one invalid record
\* with that URL and the extraction-failed error, adds no valid record, and
\* moves to the next source.
C3_ExhaustedRetries ==
  [][(pc = "extracted" /\ AllAttemptsFailed)
       => /\ raw = JNull
          /\ all_invalid' = Append(all_invalid,
                                   [source_url |-> SOURCES[i],
                                    error |-> "Gemini extraction failed"])
          /\ all_valid' = all_valid
          /\ i' = i + 1
          /\ pc' = "loop"]_vars

\* the first of two sources has failed three times, has left its record and
\* nothing else, and the loop stands at the second source
C3_Witness ==
  /\ pc = "loop"
  /\ Len(SOURCES) = 2
  /\ i = 2
  /\ AllAttemptsFailed
  /\ all_invalid = <<[source_url |-> SOURCES[1], error |-> "Gemini extraction failed"]>>
  /\ all_valid = <<>>

\* C5: whatever the service answers for a source, no exception escapes
\* run_pipeline: it visits every later source and reaches the writing of the
\* outputs.
C5_NoSourceFailureStopsRun == pc # "crashed"

(***************************************************************************)
(* Properties of parse_and_validate, checked under SpecParse.              *)
(***************************************************************************)
ParseDone == call.fn = "parse_and_validate" /\ ret.done

\* the call was given the text of a JSON list and has returned its two lists
ParsedList ==
  /\ ParseDone
  /\ call.raw_json.shape = "json"
  /\ IsList(call.raw_json.value)

\* C4: for a parsed top-level array with items of any JSON type,
\* parse_and_validate does not raise; every item is either in validRecords
\* or, when its processing raised, in invalidRecords with the source URL, an
\* error and a preview.
C4_NoBadItemAborts ==
  ParsedList =>
    /\ ~IsRaised(ret.val)
    /\ Len(ret.val.valid) + Len(ret.val.invalid) = Len(call.raw_json.value.a)
    /\ \A k \in DOMAIN ret.val.invalid :
         /\ ret.val.invalid[k].source_url = call.source_url
         /\ DOMAIN ret.val.invalid[k] = {"source_url", "error", "data_preview"}

\* required fields of a grant, all of them texts
RequiredTexts == {"programName", "programDescription", "funderName"}

\* C6: no record of validRecords lacks a required field or holds a value of
\* the wrong type in it.
C6_SchemaValidation ==
  (ParseDone /\ ~IsRaised(ret.val)) =>
    \A k \in DOMAIN ret.val.valid :
      \A f \in RequiredTexts :
        Has(ret.val.valid[k], f) /\ IsStr(Get(ret.val.valid[k], f))

\* the field of a record or of one of its sections is null, absent, or a
\* member of the closed set
Closed(d, f, valid_values) ==
  \/ ~IsDict(d)
  \/ Get(d, f) = JNull
  \/ (IsStr(Get(d, f)) /\ "s" \in DOMAIN Get(d, f) /\ InList(Get(d, f).s, valid_values))

\* C7: in every record of validRecords each enum-typed field holds a member
\* of its closed set, or null, or is absent.
C7_EnumClosure ==
  (ParseDone /\ ~IsRaised(ret.val)) =>
    \A k \in DOMAIN ret.val.valid :
      /\ Closed(ret.val.valid[k], "funderType", VALID_FUNDER_TYPES)
      /\ Closed(ret.val.valid[k], "programStatus", ProgramStatuses)
      /\ Closed(Get(ret.val.valid[k], "eligibility"), "businessStage", VALID_BUSINESS_STAGES)
      /\ Closed(Get(ret.val.valid[k], "eligibility"), "revenueRange", VALID_REVENUE_RANGES)
      /\ Closed(Get(ret.val.valid[k], "eligibility"), "employeeRange", VALID_EMPLOYEE_RANGES)
      /\ Closed(Get(ret.val.valid[k], "fundingStructure"), "fundingType", VALID_FUNDING_TYPES)

(***************************************************************************)
(* Properties of validate_enum_array, checked under SpecEnum.              *)
(***************************************************************************)
EnumArrayDone == call.fn = "validate_enum_array" /\ ret.done

\* the canonical value one raw value produces, "" when it produces none
Canon(val, valid_values, field_name) ==
  LET w == ValUpper(val) IN
  IF InList(w, valid_values) THEN w
  ELSE IF HasKey(MappingsFor(field_name), w) THEN Lookup(MappingsFor(field_name), w)
  ELSE ""

\* C8: every element validate_enum_array returns is a member of the closed set
\* it was given, and a raw value that is neither in the closed set nor a key of
\* the synonym table chosen by the field name is dropped: the call does not
\* raise and the value is not in the returned list.
C8_TaxonomyClosure ==
  EnumArrayDone =>
    /\ ~IsRaised(ret.val)
    /\ \A k \in DOMAIN ret.val.a : InList(ret.val.a[k].s, call.valid_values)
    /\ \A j \in DOMAIN call.values.a :
         LET w == ValUpper(call.values.a[j]) IN
         (~InList(w, call.valid_values) /\ ~HasKey(MappingsFor(call.field_name), w))
           => /\ ~InList(JStr(w), ret.val.a)
              /\ ~InList(JStr(PyStr(call.values.a[j])), ret.val.a)

C8_Witness ==
  /\ EnumArrayDone
  /\ call.field_name = "eligibleSectors"
  /\ call.values = JArr(<<JStr("FinTech"), JStr("Underwater Basket Weaving")>>)
  /\ ret.val = JArr(<<JStr("FINANCE")>>)

\* C9: the list validate_enum_array returns has no repeated element, holds
\* exactly the canonical values the input produces, and holds them in the order
\* in which the input first produced each.
C9_NoDuplicatesFirstOccurrence ==
  EnumArrayDone =>
    LET out == ret.val.a
        vals == call.values.a
        canon(j) == Canon(vals[j], call.valid_values, call.field_name)
        first(e) == CHOOSE j \in DOMAIN vals :
                      canon(j) = e /\ \A j2 \in 1..(j - 1) : canon(j2) # e
    IN /\ \A p, q \in DOMAIN out : p < q => out[p] # out[q]
       /\ \A p \in DOMAIN out : \E j \in DOMAIN vals : canon(j) = out[p].s
       /\ \A p, q \in DOMAIN out : p < q => first(out[p].s) < first(out[q].s)
       /\ \A j \in DOMAIN vals : canon(j) # "" => InList(JStr(canon(j)), out)

C9_Witness ==
  /\ EnumArrayDone
  /\ call.field_name = "eligibleSectors"
  /\ call.values = JArr(<<JStr("FinTech"), JStr("INNOVATION"), JStr("finance")>>)
  /\ ret.val = JArr(<<JStr("FINANCE"), JStr("TECHNOLOGY")>>)

(***************************************************************************)
(* Properties of quality_check, checked under SpecQualityCheck.            *)
(***************************************************************************)
QualityCheckDone == call.fn = "quality_check" /\ ret.done

NonEmpty(d, k) == Has(d, k) /\ Truthy(d.o[k])

\* the record has a funding structure in which amountMax or fixedAmount is
\* given and is not zero
HasAmount(grant) ==
  /\ Has(grant, "fundingStructure")
  /\ \/ NonEmpty(grant.o.fundingStructure, "amountMax")
     \/ NonEmpty(grant.o.fundingStructure, "fixedAmount")

Split == pc \in {"save", "done"}

\* quality_check returned True for the record
Passes(grant) == quality_check(grant) = JBool(TRUE)

\* the positions of all_valid whose record quality_check passed
PassedAt == {k \in DOMAIN all_valid : Passes(all_valid[k])}

\* C11: once the records are split, every record of all_valid is in exactly
\* one of high_quality and manual_review: the accepted list is all_valid
\* without the records quality_check did not return True for, the review list
\* is all_valid without the others, the two have no record in common and
\* together as many records as all_valid.
C11_ExactlyOneSink ==
  Split =>
    /\ high_quality = SelectSeq(all_valid, Passes)
    /\ manual_review = SelectSeq(all_valid, LAMBDA grant : ~Passes(grant))
    /\ Len(high_quality) + Len(manual_review) = Len(all_valid)
    /\ \A p \in DOMAIN high_quality : \A q \in DOMAIN manual_review :
         high_quality[p] # manual_review[q]

\* a run has ended with records in both lists
C11_Witness ==
  /\ pc = "done"
  /\ Len(all_valid) >= 3
  /\ PassedAt # {}
  /\ PassedAt # DOMAIN all_valid

\* C12: a run that has ended with at least one record in all_invalid has
\* written those records to its invalid-records file, whether or not any
\* record was accepted.
C12_InvalidAlwaysWritten ==
  (pc = "done" /\ all_invalid # <<>>)
    => /\ Exists(files, InvalidCsv(now_utc))
       /\ RowsOf(InvalidCsv(now_utc)) = all_invalid

\* the json_error files of the data directory
ErrorFiles == {f \in DOMAIN files : f.file = "json_error_"}

\* C13: when the text returned for a source could not be parsed, strictly or
\* after repair, all_invalid holds a record with that source URL and an error.
C13_ParseFailureRecorded ==
  \A f \in ErrorFiles :
    \E k \in DOMAIN all_invalid :
      /\ all_invalid[k].source_url = files[f].source
      /\ "error" \in DOMAIN all_invalid[k]

\* extract_from_gemini has returned a text that json.loads and the five
\* repair strategies all fail on
Unparsable == pc = "extracted" /\ TextTruthy(raw) /\ LoadJson(raw) = ParseFailed

\* C14: for a text that strict parsing and every repair strategy fail on,
\* the step of run_pipeline writes a json_error file holding the source URL,
\* the window around the error position and the whole text, adds nothing to
\* all_valid or all_invalid, does not raise, and goes on to the next source
\* without another request for this one.
C14_UnparsablePayload ==
  [][Unparsable
       => /\ \E f \in DOMAIN files' :
               /\ f.file = "json_error_"
               /\ files'[f].source = SOURCES[i]
               /\ files'[f].context = ContextAround(raw, files'[f].error_position, ContextWidth)
               /\ files'[f].raw_json = raw
          /\ \A f \in DOMAIN files : f.file # "json_error_" => files'[f] = files[f]
          /\ all_valid' = all_valid
          /\ all_invalid' = all_invalid
          /\ requests' = requests
          /\ i' = i + 1
          /\ pc' = "loop"]_vars

\* the first of two sources was answered with prose: its json_error file is
\* written, no record was added, and the loop stands at the second source
C14_Witness ==
  /\ pc = "loop"
  /\ Len(SOURCES) = 2
  /\ i = 2
  /\ raw = ProseText
  /\ \E f \in ErrorFiles : files[f] = ErrorReport(SOURCES[1], ProseText)
  /\ all_valid = <<>>
  /\ all_invalid = <<>>

\* s is t or a beginning of it
IsPrefix(s, t) == Len(s) <= Len(t) /\ SubSeq(t, 1, Len(s)) = s

\* the place of a URL in the source list
SourceIndex(url) == CHOOSE n \in DOMAIN SOURCES : SOURCES[n] = url

\* the rows of an output are the flattened records, one for one and in order
RowsAre(name, records) ==
  /\ Len(RowsOf(name)) = Len(records)
  /\ \A k \in DOMAIN records : RowsOf(name)[k] = flatten_grant_structure(records[k])

\* one step of the run keeps the order: the loop moves on by one source at
\* most, passes over a source at the head of the loop only when it is in
\* processed and otherwise calls extract_from_gemini for it, and the two
\* accumulations only grow at their ends
OrderedStep ==
  /\ i' \in {i, i + 1}
  /\ (pc = "loop" /\ i' = i + 1) => (SOURCES[i] \in processed)
  /\ (pc = "loop" /\ pc' = "extract") => (i' = i /\ SOURCES[i] \notin processed)
  /\ IsPrefix(all_valid, all_valid')
  /\ IsPrefix(all_invalid, all_invalid')

\* the refused items of one source stand in item order
ItemOrder(r1, r2) ==
  ( /\ r1.source_url = r2.source_url
    /\ "data_preview" \in DOMAIN r1
    /\ "data_preview" \in DOMAIN r2 ) => (r1.data_preview < r2.data_preview)

\* the accumulations hold their records in source order, the two lists keep
\* the order of all_valid, and the rows of each output written are its
\* records in order
OrderedState ==
  /\ \A p, q \in DOMAIN all_valid :
       (p < q) => (SourceIndex(Get(all_valid[p], "sourceURL").s)
                    <= SourceIndex(Get(all_valid[q], "sourceURL").s))
  /\ \A p, q \in DOMAIN all_invalid :
       (p < q) => /\ SourceIndex(all_invalid[p].source_url)
                      <= SourceIndex(all_invalid[q].source_url)
                  /\ ItemOrder(all_invalid[p], all_invalid[q])
  /\ Split => /\ high_quality = SelectSeq(all_valid, Passes)
              /\ manual_review = SelectSeq(all_valid, LAMBDA grant : ~Passes(grant))
  /\ (pc = "done") =>
       /\ (high_quality # <<>>) => RowsAre(ValidatedCsv(now_utc), high_quality)
       /\ (manual_review # <<>>) => RowsAre(ReviewCsv(now_utc), manual_review)
       /\ Exists(files, InvalidCsv(now_utc)) => (RowsOf(InvalidCsv(now_utc)) = all_invalid)

Durable(grant) ==
  \/ IsRaised(flatten_grant_structure(grant))
  \/ InList(flatten_grant_structure(grant), RowsOf(ValidatedCsv(now_utc)))
  \/ InList(flatten_grant_structure(grant), RowsOf(ReviewCsv(now_utc)))

\* C16: while the loop over the sources is under way, the records of the
\* sources already completed are in the outputs: every record of all_invalid
\* is a row of the invalid output and every record of all_valid a row of the
\* accepted or of the review output.
C16_CrashDurability ==
  (pc \in {"loop", "extract", "extracted"}) =>
    /\ \A k \in DOMAIN all_invalid : InList(all_invalid[k], RowsOf(InvalidCsv(now_utc)))
    /\ \A k \in DOMAIN all_valid : Durable(all_valid[k])

\* the records the run hands to its accepted and its review output
OutputRecords == high_quality \o manual_review

\* C17: any two records of one run's output (accepted plus review) have
\* different grantID values, whether the service supplied the id or line 823
\* built it.
C17_GrantIdUnique ==
  Split =>
    \A p, q \in DOMAIN OutputRecords :
      (p < q) => (Get(OutputRecords[p], "grantID") # Get(OutputRecords[q], "grantID"))

\* the run has no key or no source to work on
NothingToRun == ~Truthy(API_KEY) \/ SOURCES = <<>>

\* C18: when the API key is missing (not set, or empty) or the source list
\* is missing (SOURCES is empty), no step of the run calls the service or
\* changes the data directory: no accepted, review or invalid output is
\* written.
C18_FatalConfiguration ==
  [][NothingToRun => /\ pc' # "extract"
                     /\ requests' = <<>>
                     /\ files' = files]_vars

\* run_pipeline has returned without a key although there were sources
C18_Witness ==
  /\ pc = "done"
  /\ API_KEY = JNull
  /\ SOURCES # <<>>
  /\ requests = <<>>

(***************************************************************************)
(* Properties of the raw response files, checked under SpecRerun.          *)
(***************************************************************************)
\* the raw response files of a data directory
RawFiles(fs) == {f \in DOMAIN fs : f.file = "raw"}

\* f is a new file holding the text returned; its name is the plain one, or
\* the one with the least suffix 1, 2, ... not taken
NewArtifact(f) ==
  /\ f \notin DOMAIN files
  /\ files'[f] = raw'
  /\ \A c \in 0..(f.counter - 1) : Exists(files, RawFile(f.safe_name, f.date, c))

\* C19: every step of extract_from_gemini that returns a text writes it to
\* exactly one raw response file whose name did not exist before (the plain
\* name, or the name with the least free suffix 1, 2, ...); a step that
\* returns no text writes none; and no step of the program removes a raw
\* response file or changes what it holds.
C19_ArtifactNeverOverwritten ==
  [][/\ \A g \in RawFiles(files) : g \in DOMAIN files' /\ files'[g] = files[g]
     /\ IF pc = "extract" /\ pc' = "extracted" /\ raw' # JNull
        THEN /\ Cardinality(RawFiles(files')) = Cardinality(RawFiles(files)) + 1
             /\ \A f \in RawFiles(files') \ RawFiles(files) : NewArtifact(f)
        ELSE RawFiles(files') = RawFiles(files)]_vars

\* the second run has written the fourth file of one name on one day
C19_Witness ==
  /\ run = 2
  /\ pc = "extracted"
  /\ Exists(files, RawFile("apply", Date(0), 3))
  /\ Cardinality(RawFiles(files)) = 4

(***************************************************************************)
(* Properties of flatten_grant_structure on the records parse_and_validate *)
(* returns, checked under SpecParse.                                       *)
(***************************************************************************)
\* the columns read with "; ".join
JoinedColumns ==
  {FlattenColumns[n][1] : n \in {m \in DOMAIN FlattenColumns : FlattenColumns[m][3] = "join"}}

\* flatten_grant_structure returned a row with the fixed columns, the
\* multi-value ones joined
FlatRow(row) ==
  /\ ~IsRaised(row)
  /\ DOMAIN row.o = FlatColumnNames
  /\ \A c \in JoinedColumns : "joined" \in DOMAIN row.o[c]

\* C20: for every record of validRecords flatten_grant_structure does not
\* raise and returns one row with the fixed set of columns, each multi-value
\* field joined by "; ".
C20_Flattening ==
  (ParseDone /\ ~IsRaised(ret.val)) =>
    \A k \in DOMAIN ret.val.valid : FlatRow(flatten_grant_structure(ret.val.valid[k]))

(***************************************************************************)
(* Texts character by character.  A text is a sequence of one-character    *)
(* strings.  The operators below are the string and regular-expression     *)
(* calls of model2 lines 290-399 and 689-787 on such sequences; the        *)
(* characters they single out that no text of the model holds (tabs,       *)
(* carriage returns, U+00A0, U+200B, U+2028, U+2029, control characters)   *)
(* are left out of the alphabet.                                           *)
(***************************************************************************)
NL == "\n"

QT == "\""

BS == "\\"

\* the backtick, which no TLA+ string holds
BT == "backtick"

\* the characters str.strip() strips and \s matches
Blank == {" ", NL}

SetMin(S) == CHOOSE x \in S : \A y \in S : x <= y

SetMax(S) == CHOOSE x \in S : \A y \in S : y <= x

\* text[p:]
From(text, p) == SubSeq(text, p, Len(text))

\* text[p:].startswith(word)
At(text, p, word) ==
  p + Len(word) - 1 <= Len(text) /\ SubSeq(text, p, p + Len(word) - 1) = word

\* the length of the longest run of characters of cs that starts at p
RunLen(text, p, cs) ==
  LET stops == {q \in p..Len(text) : text[q] \notin cs} IN
  (IF stops = {} THEN Len(text) + 1 ELSE SetMin(stops)) - p

CharAt(text, p) == IF p \in 1..Len(text) THEN text[p] ELSE "end"

SkipBlank(text, p) == p + RunLen(text, p, Blank)

\* str.lstrip() / str.rstrip() / str.strip()
lstrip(text) == From(text, 1 + RunLen(text, 1, Blank))

rstrip(text) ==
  LET kept == {p \in 1..Len(text) : text[p] \notin Blank} IN
  IF kept = {} THEN <<>> ELSE SubSeq(text, 1, SetMax(kept))

strip(text) == rstrip(lstrip(text))

\* re.sub from position p on: lens[q] is the length of the match that starts
\* at q (0: none) and repls[q] what replaces it
RECURSIVE ReSub(_, _, _, _)
ReSub(text, lens, repls, p) ==
  IF p > Len(text) THEN <<>>
  ELSE IF lens[p] > 0 THEN repls[p] \o ReSub(text, lens, repls, p + lens[p])
  ELSE <<text[p]>> \o ReSub(text, lens, repls, p + 1)

\* r'\[cite:\[.*?\]\]' with re.DOTALL (line 373)
CiteNested(text, p) ==
  IF At(text, p, <<"[", "c", "i", "t", "e", ":", "[">>)
  THEN LET ends == {q \in (p + 7)..(Len(text) - 1) : text[q] = "]" /\ text[q + 1] = "]"} IN
       IF ends = {} THEN 0 ELSE SetMin(ends) + 2 - p
  ELSE 0

\* r'\[cite:.*?\]' (line 374): the dot matches no line break
CiteTag(text, p) ==
  IF At(text, p, <<"[", "c", "i", "t", "e", ":">>)
  THEN LET ends == {q \in (p + 6)..Len(text) : text[q] \in {"]", NL}} IN
       IF ends = {} \/ text[SetMin(ends)] = NL THEN 0 ELSE SetMin(ends) + 1 - p
  ELSE 0

\* the pattern of line 377: three backticks, json, \s*
JsonFence(text, p) ==
  IF At(text, p, <<BT, BT, BT, "j", "s", "o", "n">>)
  THEN 7 + RunLen(text, p + 7, Blank)
  ELSE 0

\* the pattern of line 378: three backticks, \s*
Fence(text, p) ==
  IF At(text, p, <<BT, BT, BT>>) THEN 3 + RunLen(text, p + 3, Blank) ELSE 0

\* r'  +' (line 339)
Spaces(text, p) ==
  IF RunLen(text, p, {" "}) >= 2 THEN RunLen(text, p, {" "}) ELSE 0

\* [a-zA-Z_] within the alphabet
Letters == {"a", "c", "e", "i", "j", "k", "m", "n", "o", "s", "t", "_"}

\* the characters of the texts of the model
Alphabet == Letters \cup {"[", "]", "{", "}", QT, BS, ",", ":", " ", NL, BT, "/"}

\* r'"\s*([a-zA-Z_])' -> r'", \1' (line 703)
MissingComma(text, p) ==
  IF text[p] = QT /\ CharAt(text, SkipBlank(text, p + 1)) \in Letters
  THEN SkipBlank(text, p + 1) + 1 - p
  ELSE 0

CommaAdded(text, p) == <<QT, ",", " ", text[SkipBlank(text, p + 1)]>>

\* r'(?<!\\)\n(?=[^,\[\]\{\}:])' (line 714)
BareNewline(text, p) ==
  IF /\ text[p] = NL
     /\ CharAt(text, p - 1) # BS
     /\ p < Len(text)
     /\ text[p + 1] \notin {",", "[", "]", "{", "}", ":"}
  THEN 1 ELSE 0

\* r'\n(?!\s*[,\[\]\{\}"])' (line 725)
InnerNewline(text, p) ==
  IF /\ text[p] = NL
     /\ CharAt(text, SkipBlank(text, p + 1)) \notin {",", "[", "]", "{", "}", QT}
  THEN 1 ELSE 0

\* r'"\s*\n\s*([^"{\[\]},]+)\s*"' (line 782): the characters between the two
\* quotes are none of "{[]}, ; the first \s* ends at the last line break of
\* the leading blanks that leaves a character for the group
InnerChars == Alphabet \ {QT, "{", "[", "]", "}", ","}

BrokenValueBreak(text, p) ==
  LET last == p + RunLen(text, p + 1, InnerChars)
      breaks == {n \in (p + 1)..(p + RunLen(text, p + 1, Blank)) :
                   text[n] = NL /\ n < last} IN
  IF text[p] = QT /\ CharAt(text, last + 1) = QT /\ breaks # {}
  THEN SetMax(breaks)
  ELSE 0

BrokenValue(text, p) ==
  IF BrokenValueBreak(text, p) > 0 THEN RunLen(text, p + 1, InnerChars) + 2 ELSE 0

\* r'", "\1"'
ValueSplit(text, p) ==
  LET last == p + RunLen(text, p + 1, InnerChars)
      n == BrokenValueBreak(text, p)
      first == IF SkipBlank(text, n + 1) > last THEN last ELSE SkipBlank(text, n + 1) IN
  <<QT, ",", " ", QT>> \o SubSeq(text, first, last) \o <<QT>>

\* the length of the match of pattern that starts at p, 0 for none
Match(pattern, text, p) ==
  CASE pattern = "cite_nested" -> CiteNested(text, p)
    [] pattern = "cite" -> CiteTag(text, p)
    [] pattern = "json_fence" -> JsonFence(text, p)
    [] pattern = "fence" -> Fence(text, p)
    [] pattern = "spaces" -> Spaces(text, p)
    [] pattern = "missing_comma" -> MissingComma(text, p)
    [] pattern = "bare_newline" -> BareNewline(text, p)
    [] pattern = "inner_newline" -> InnerNewline(text, p)
    [] pattern = "broken_value" -> BrokenValue(text, p)

\* what re.sub puts for that match
Replacement(pattern, text, p) ==
  CASE pattern = "missing_comma" -> CommaAdded(text, p)
    [] pattern = "broken_value" -> ValueSplit(text, p)
    [] pattern \in {"spaces", "bare_newline", "inner_newline"} -> <<" ">>
    [] OTHER -> <<>>

\* re.sub(pattern, repl, text)
Sub(pattern, text) ==
  ReSub(text, [p \in 1..Len(text) |-> Match(pattern, text, p)],
        [p \in 1..Len(text) |->
           IF Match(pattern, text, p) > 0 THEN Replacement(pattern, text, p) ELSE <<>>], 1)

\* the k-th smallest element of a set of numbers
Nth(S, k) == CHOOSE x \in S : Cardinality({y \in S : y <= x}) = k

\* text.split('\n')
SplitLines(text) ==
  LET cuts == {p \in 1..Len(text) : text[p] = NL}
      n == Cardinality(cuts) IN
  [j \in 1..(n + 1) |->
     SubSeq(text, IF j = 1 THEN 1 ELSE Nth(cuts, j - 1) + 1,
                  IF j = n + 1 THEN Len(text) ELSE Nth(cuts, j) - 1)]

\* '\n'.join(lines)
RECURSIVE JoinLines(_)
JoinLines(lines) ==
  IF lines = <<>> THEN <<>>
  ELSE IF Len(lines) = 1 THEN lines[1]
  ELSE lines[1] \o <<NL>> \o JoinLines(Tail(lines))

\* len(re.findall(r'(?<!\\)"', line)) (line 320)
QuoteCount(line) ==
  Cardinality({p \in 1..Len(line) : line[p] = QT /\ (p = 1 \/ line[p - 1] # BS)})

\* the loop of lines 318-334 from lines[k] on
RECURSIVE MergeLines(_, _, _, _)
MergeLines(lines, k, cleaned_lines, in_string) ==
  IF k > Len(lines) THEN cleaned_lines
  ELSE MergeLines(lines, k + 1,
                  IF in_string /\ cleaned_lines # <<>>
                  THEN [cleaned_lines EXCEPT ![Len(cleaned_lines)] =
                          rstrip(@) \o <<" ">> \o lstrip(lines[k])]
                  ELSE Append(cleaned_lines, lines[k]),
                  IF QuoteCount(lines[k]) % 2 = 1 THEN ~in_string ELSE in_string)

\* re.search(r'(\[.*\]|\{.*\})', text, re.DOTALL) (line 296): the leftmost
\* bracket that has its closing bracket after it, up to the last such bracket
OuterJson(text) ==
  LET closes(p) == {q \in (p + 1)..Len(text) :
                      text[q] = (IF text[p] = "[" THEN "]" ELSE "}")}
      starts == {p \in 1..Len(text) : text[p] \in {"[", "{"} /\ closes(p) # {}} IN
  IF starts = {} THEN text
  ELSE SubSeq(text, SetMin(starts), SetMax(closes(SetMin(starts))))

\* model2 lines 290-341
clean_json_string(text) ==
  Sub("spaces", JoinLines(MergeLines(SplitLines(OuterJson(text)), 1, <<>>, FALSE)))

\* lines 381-383
CutBeforeBracket(text) ==
  LET opens == {p \in 1..Len(text) : text[p] \in {"[", "{"}} IN
  IF opens = {} THEN text ELSE From(text, SetMin(opens))

\* lines 386-388
CutAfterBracket(text) ==
  LET closes == {p \in 1..Len(text) : text[p] \in {"]", "}"}} IN
  IF closes = {} THEN text ELSE SubSeq(text, 1, SetMax(closes))

\* lines 394-399: re.search(r'([\[\{].*[\]\}])', raw_text, re.DOTALL) for a
\* text that starts with no bracket
LooksLikeJson(text) ==
  LET opens == {p \in 1..Len(text) : text[p] \in {"[", "{"}}
      closes == {p \in 1..Len(text) : text[p] \in {"]", "}"}} IN
  IF (text # <<>> /\ text[1] \in {"[", "{"}) \/ opens = {} \/ closes = {}
     \/ SetMax(closes) <= SetMin(opens)
  THEN text
  ELSE SubSeq(text, SetMin(opens), SetMax(closes))

\* model2 lines 370-399: what extract_from_gemini makes of response.text
CleanResponseText(text) ==
  LooksLikeJson(clean_json_string(CutAfterBracket(CutBeforeBracket(
    Sub("fence", Sub("json_fence", Sub("cite", Sub("cite_nested", strip(text)))))))))

(***************************************************************************)
(* json.loads on a text of characters.  The alphabet holds no digit and    *)
(* spells none of true, false, null, so a value is a string, an array or   *)
(* an object.  A str is the JTxt of its characters, a dict the JObj of the *)
(* function from its keys (sequences of characters) to their values.       *)
(***************************************************************************)
\* a value and the position after it
Parsed(v, next) == [val |-> v, next |-> next]

\* the escapes \" \\ \/ \n \t
Unescape(c) ==
  CASE c = "n" -> NL
    [] c = "t" -> "\t"
    [] OTHER -> c

\* the rest of a string literal from position q on; chars is what was read
RECURSIVE ScanString(_, _, _)
ScanString(text, q, chars) ==
  IF q > Len(text) \/ text[q] = NL THEN ParseFailed
  ELSE IF text[q] = QT THEN Parsed(JTxt(chars), q + 1)
  ELSE IF text[q] = BS
  THEN IF CharAt(text, q + 1) \in {QT, BS, "/", "n", "t"}
       THEN ScanString(text, q + 2, Append(chars, Unescape(text[q + 1])))
       ELSE ParseFailed
  ELSE ScanString(text, q + 1, Append(chars, text[q]))

\* dict(members): the last value of a repeated key wins
Dict(members) ==
  JObj([k \in {members[j][1] : j \in DOMAIN members} |->
          members[SetMax({j \in DOMAIN members : members[j][1] = k})][2]])

RECURSIVE ParseValue(_, _)
RECURSIVE ParseElements(_, _, _)
RECURSIVE ParseMembers(_, _, _)
\* the value that starts at or after p
ParseValue(text, p) ==
  CASE CharAt(text, SkipBlank(text, p)) = QT ->
         ScanString(text, SkipBlank(text, p) + 1, <<>>)
    [] CharAt(text, SkipBlank(text, p)) = "[" ->
         IF CharAt(text, SkipBlank(text, SkipBlank(text, p) + 1)) = "]"
         THEN Parsed(JArr(<<>>), SkipBlank(text, SkipBlank(text, p) + 1) + 1)
         ELSE ParseElements(text, SkipBlank(text, p) + 1, <<>>)
    [] CharAt(text, SkipBlank(text, p)) = "{" ->
         IF CharAt(text, SkipBlank(text, SkipBlank(text, p) + 1)) = "}"
         THEN Parsed(JObj(<<>>), SkipBlank(text, SkipBlank(text, p) + 1) + 1)
         ELSE ParseMembers(text, SkipBlank(text, p) + 1, <<>>)
    [] OTHER -> ParseFailed

\* the elements of an array from p on, after items
ParseElements(text, p, items) ==
  LET r == ParseValue(text, p) IN
  IF r = ParseFailed THEN ParseFailed
  ELSE CASE CharAt(text, SkipBlank(text, r.next)) = "," ->
              ParseElements(text, SkipBlank(text, r.next) + 1, Append(items, r.val))
         [] CharAt(text, SkipBlank(text, r.next)) = "]" ->
              Parsed(JArr(Append(items, r.val)), SkipBlank(text, r.next) + 1)
         [] OTHER -> ParseFailed

\* the members of an object from p on, after members
ParseMembers(text, p, members) ==
  LET key == IF CharAt(text, SkipBlank(text, p)) = QT
             THEN ScanString(text, SkipBlank(text, p) + 1, <<>>)
             ELSE ParseFailed
      colon == IF key = ParseFailed THEN 0 ELSE SkipBlank(text, key.next)
      r == IF key # ParseFailed /\ CharAt(text, colon) = ":"
           THEN ParseValue(text, colon + 1)
           ELSE ParseFailed IN
  IF r = ParseFailed THEN ParseFailed
  ELSE CASE CharAt(text, SkipBlank(text, r.next)) = "," ->
              ParseMembers(text, SkipBlank(text, r.next) + 1,
                           Append(members, <<key.val.c, r.val>>))
         [] CharAt(text, SkipBlank(text, r.next)) = "}" ->
              Parsed(Dict(Append(members, <<key.val.c, r.val>>)), SkipBlank(text, r.next) + 1)
         [] OTHER -> ParseFailed

\* json.loads(text): the value, or ParseFailed for JSONDecodeError
loads(text) ==
  LET r == ParseValue(text, 1) IN
  IF r = ParseFailed THEN ParseFailed
  ELSE IF SkipBlank(text, r.next) <= Len(text) THEN ParseFailed
  ELSE r.val

(***************************************************************************)
(* The repair strategies of parse_and_validate (model2 lines 699-787) on a *)
(* text of characters.  Each try block is an operator from raw_json to the *)
(* text it hands to json.loads (fixed_json) and what json.loads makes of   *)
(* it.                                                                     *)
(***************************************************************************)
Attempt(fixed_json) == [fixed_json |-> fixed_json, parsed |-> loads(fixed_json)]

\* lines 702-706; line 703 leaves no quote that a letter follows, so the
\* pattern of line 705 matches nowhere
Strategy1(raw_json) == Attempt(Sub("missing_comma", raw_json))

\* lines 713-716
Strategy2(raw_json) == Attempt(Sub("bare_newline", raw_json))

\* lines 723-727
Strategy3(raw_json) == Attempt(Sub("inner_newline", raw_json))

\* lines 736-738: where the scan of strategy 4 starts, 0 for -1
BracketStart(raw_json) ==
  LET squares == {p \in 1..Len(raw_json) : raw_json[p] = "["}
      braces == {p \in 1..Len(raw_json) : raw_json[p] = "{"} IN
  IF squares # {} THEN SetMin(squares)
  ELSE IF braces # {} THEN SetMin(braces)
  ELSE 0

\* the loop of lines 746-772 from position p on: the position of the bracket
\* that takes depth back to 0, 0 when the text ends before
RECURSIVE BalancedEnd(_, _, _, _, _)
BalancedEnd(raw_json, p, depth, in_string, escape_next) ==
  IF p > Len(raw_json) THEN 0
  ELSE IF escape_next THEN BalancedEnd(raw_json, p + 1, depth, in_string, FALSE)
  ELSE IF raw_json[p] = BS THEN BalancedEnd(raw_json, p + 1, depth, in_string, TRUE)
  ELSE IF raw_json[p] = QT THEN BalancedEnd(raw_json, p + 1, depth, ~in_string, FALSE)
  ELSE IF in_string THEN BalancedEnd(raw_json, p + 1, depth, in_string, FALSE)
  ELSE IF raw_json[p] \in {"[", "{"}
  THEN BalancedEnd(raw_json, p + 1, depth + 1, in_string, FALSE)
  ELSE IF raw_json[p] \in {"]", "}"}
  THEN IF depth - 1 = 0 THEN p
       ELSE BalancedEnd(raw_json, p + 1, depth - 1, in_string, FALSE)
  ELSE BalancedEnd(raw_json, p + 1, depth, in_string, FALSE)

\* raw_json[start:i+1] of line 768, NoSpan when the scan finds no end
NoSpan == [span |-> FALSE]

BalancedSpan(raw_json) ==
  LET start == BracketStart(raw_json) IN
  IF start = 0 \/ BalancedEnd(raw_json, start, 0, FALSE, FALSE) = 0 THEN NoSpan
  ELSE SubSeq(raw_json, start, BalancedEnd(raw_json, start, 0, FALSE, FALSE))

\* lines 734-776; fixed_json is assigned when the scan finds its end
Strategy4(raw_json, fixed_json) ==
  IF BalancedSpan(raw_json) = NoSpan
  THEN [fixed_json |-> fixed_json, parsed |-> ParseFailed]
  ELSE Attempt(BalancedSpan(raw_json))

\* lines 780-784
Strategy5(raw_json) == Attempt(Sub("broken_value", raw_json))

\* what the try block of strategy k makes of raw_json
Outcome(k, fixed_json, raw_json) ==
  CASE k = 1 -> Strategy1(raw_json)
    [] k = 2 -> Strategy2(raw_json)
    [] k = 3 -> Strategy3(raw_json)
    [] k = 4 -> Strategy4(raw_json, fixed_json)
    [] k = 5 -> Strategy5(raw_json)

\* the assignments of a try block: fixed, parsed, fixed_json and the
\* strategies attempted so far
Assigned(k, state, outcome) ==
  [fixed |-> outcome.parsed # ParseFailed,
   parsed |-> IF outcome.parsed = ParseFailed THEN state.parsed ELSE outcome.parsed,
   fixed_json |-> outcome.fixed_json,
   attempted |-> Append(state.attempted, k)]

\* the try block of strategy k after state
Tried(k, state, raw_json) == Assigned(k, state, Outcome(k, state.fixed_json, raw_json))

\* Try with the test of fixed left out
Try_NoGuard(k, state, raw_json) == Tried(k, state, raw_json)

\* one "if not fixed:" block
Try(k, state, raw_json) == IF state.fixed THEN state ELSE Tried(k, state, raw_json)

\* lines 689-787: json.loads(raw_json) and, on JSONDecodeError, the cascade
LoadRepaired(raw_json) ==
  IF loads(raw_json) # ParseFailed
  THEN [fixed |-> TRUE, parsed |-> loads(raw_json), fixed_json |-> raw_json,
        attempted |-> <<>>]
  ELSE Try(5, Try(4, Try(3, Try(2, Try(1,
         [fixed |-> FALSE, parsed |-> JNull, fixed_json |-> raw_json, attempted |-> <<>>],
         raw_json), raw_json), raw_json), raw_json), raw_json)

(***************************************************************************)
(* Calls of the sanitizer: a response that holds, inside a json code       *)
(* fence, an array of one object whose two string values are written with  *)
(* their line breaks as they are.                                          *)
(***************************************************************************)
MaxLen == 2

ValueChars == {"a", NL, BS, QT}

Values == UNION {[1..n -> ValueChars] : n \in 0..MaxLen}

RECURSIVE Concat(_)
Concat(texts) == IF texts = <<>> THEN <<>> ELSE Head(texts) \o Concat(Tail(texts))

\* the string literal of value, a line break of the value written as break
Literal(value, break) ==
  <<QT>> \o Concat([j \in 1..Len(value) |->
                      CASE value[j] = QT -> <<BS, QT>>
                        [] value[j] = BS -> <<BS, BS>>
                        [] value[j] = NL -> break
                        [] OTHER -> <<value[j]>>]) \o <<QT>>

\* [{"k": ..., "m": ...}] with break for each line break, of the values and
\* between the two members
Document(k, m, break) ==
  <<"[", "{", QT, "k", QT, ":", " ">> \o Literal(k, break) \o <<",">> \o break
    \o <<" ", QT, "m", QT, ":", " ">> \o Literal(m, break) \o <<"}", "]">>

Fenced(text) == <<BT, BT, BT, "j", "s", "o", "n", NL>> \o text \o <<NL, BT, BT, BT>>

\* the value written on one line: a blank for each run of line breaks
RECURSIVE OneLine(_)
OneLine(value) ==
  IF value = <<>> THEN <<>>
  ELSE IF Head(value) = NL
  THEN <<" ">> \o OneLine(From(value, 1 + RunLen(value, 1, {NL})))
  ELSE <<Head(value)>> \o OneLine(Tail(value))

InitSanitize ==
  /\ call \in { [fn |-> "sanitize", k |-> k, m |-> m,
                 text |-> Fenced(Document(k, m, <<NL>>))] : k \in Values, m \in Values }
  /\ ret = Pending
  /\ NoFrame

ApplySanitize ==
  /\ call.fn = "sanitize"
  /\ ~ret.done
  /\ ret' = Returned(CleanResponseText(call.text))
  /\ UNCHANGED <<call, frame>>

NextSanitize == ApplySanitize

SpecSanitize == InitSanitize /\ [][NextSanitize]_vars

(***************************************************************************)
(* Properties of the sanitizer, checked under SpecSanitize.                *)
(***************************************************************************)
\* the response holds a line break inside a string value and was sanitized
BrokenValuesSanitized ==
  /\ call.fn = "sanitize"
  /\ ret.done
  /\ NL \in {call.k[j] : j \in DOMAIN call.k} \cup {call.m[j] : j \in DOMAIN call.m}

\* C21: for every fenced JSON array with literal line breaks inside its
\* string values, json.loads accepts the sanitized text, and the records it
\* yields are those of the same array written on one line
C21_SanitizerTolerance ==
  BrokenValuesSanitized =>
    /\ loads(ret.val) # ParseFailed
    /\ loads(ret.val) = loads(Document(OneLine(call.k), OneLine(call.m), <<>>))

(***************************************************************************)
(* Properties of the loop of run_pipeline over the sources.                *)
(***************************************************************************)
\* the loop is at a source
AtSource == pc = "loop" /\ i <= Len(SOURCES)

\* a step from a source that is in the set loaded at the start of the run
SkipStep ==
  (AtSource /\ SOURCES[i] \in processed) =>
    /\ pc' = "loop"
    /\ i' = i + 1
    /\ UNCHANGED <<requests, attempt, raw, all_valid, all_invalid, clock, waits, files>>

\* a step from a source that is not in the set, and the step that follows
\* the return of extract_from_gemini
ExtractThenParseStep ==
  /\ (AtSource /\ SOURCES[i] \notin processed) =>
       (pc' = "extract" /\ requests' = <<>> /\ UNCHANGED <<i, all_valid, all_invalid>>)
  /\ (pc' = "extract") => (pc = "extract" \/ (AtSource /\ SOURCES[i] \notin processed))
  /\ (pc = "extracted" /\ TextTruthy(raw)) =>
       /\ requests # <<>>
       /\ \/ pc' = "crashed"
          \/ \E ids \in IdChoices(raw, clock) :
               /\ ~IsRaised(parse_and_validate(raw, SOURCES[i], ids))
               /\ all_valid' = all_valid \o parse_and_validate(raw, SOURCES[i], ids).valid
               /\ all_invalid' = all_invalid \o parse_and_validate(raw, SOURCES[i], ids).invalid

\* C22: a source in the previously-processed set gets no request, no
\* record and no delay; any other source is extracted and then, when the
\* text is not empty, parsed
C22_SkipRule == [][SkipStep /\ ExtractThenParseStep]_vars

\* of two sources the first was skipped and the second extracted and parsed
C22_Witness ==
  /\ pc = "loop"
  /\ i = 3
  /\ SOURCES[1] \in processed
  /\ SOURCES[2] \notin processed
  /\ requests # <<>>
  /\ all_valid # <<>>
  /\ clock = RateLimitDelay

(***************************************************************************)
(* Properties of one call of the extraction function, checked under        *)
(* SpecExtract.                                                            *)
(***************************************************************************)
\* the reply is a response whose text is None or the empty str
EmptyReply(reply) == reply.kind = "response" /\ reply.text \in {JNull, EmptyText}

\* the step takes the reply of one more attempt
Replied == pc = "extract" /\ Len(requests') = Len(requests) + 1

\* an attempt of extract_from_gemini that gets an empty reply: the loop goes
\* on to the next attempt, and after the last attempt None is returned
RetryOnEmptyStep ==
  (variant = "model2" /\ Replied /\ EmptyReply(requests'[Len(requests')])) =>
    IF attempt < retries
    THEN pc' = "extract" /\ attempt' = attempt + 1 /\ raw' = raw
    ELSE pc' = "extracted" /\ raw' = JNull

\* what extract_from_gemini returns: a text only from a reply that was not
\* empty, None after replies that were all empty
EmptyNeverReturned ==
  (variant = "model2" /\ pc = "extracted") =>
    /\ (raw # JNull) => ~EmptyReply(requests[Len(requests)])
    /\ (\A k \in DOMAIN requests : EmptyReply(requests[k])) =>
         (raw = JNull /\ Len(requests) = retries)

BackoffStep ==
  (variant = "model2" /\ Replied /\ pc' = "extract") =>
    /\ waits' = Append(waits, BackoffWait(attempt))
    /\ clock' = clock + BackoffWait(attempt)

\* C24: between two consecutive attempts k and k + 1 of one call of
\* extract_from_gemini the client waits backoff * 2^(k-1) seconds (and a
\* jitter of at most one second), whether attempt k raised or returned an
\* empty response
C24_BackoffBetweenAttempts == [][BackoffStep]_vars

(***************************************************************************)
(* Calls of the parsing block of parse_and_validate (lines 689-787) on     *)
(* payloads of characters: every text of at most MaxText characters and a  *)
(* few longer ones.                                                        *)
(***************************************************************************)
MaxText == 4

RepairChars == {"[", "]", "{", QT, NL, ":", "a"}

\* [""<break>:"], {"a":["a"]}a, ["\"]"]], ["a"<break>a"]
Samples ==
  { <<"[", QT, QT, NL, ":", QT, "]">>,
    <<"{", QT, "a", QT, ":", "[", QT, "a", QT, "]", "}", "a">>,
    <<"[", QT, BS, QT, "]", QT, "]", "]">>,
    <<"[", QT, "a", QT, NL, "a", QT, "]">> }

Payloads == UNION {[1..n -> RepairChars] : n \in 0..MaxText} \cup Samples

InitRepair ==
  /\ call \in {[fn |-> "loads", raw_json |-> t] : t \in Payloads}
  /\ ret = Pending
  /\ NoFrame

ApplyRepair ==
  /\ call.fn = "loads"
  /\ ~ret.done
  /\ ret' = Returned(LoadRepaired(call.raw_json))
  /\ UNCHANGED <<call, frame>>

NextRepair == ApplyRepair

SpecRepair == InitRepair /\ [][NextRepair]_vars

(***************************************************************************)
(* Properties of the repair cascade, checked under SpecRepair.             *)
(***************************************************************************)
\* the parsing block has run
RepairDone == call.fn = "loads" /\ ret.done

\* what strategy k alone makes of the payload of the call
OnPayload(k) ==
  (CASE k = 1 -> Strategy1(call.raw_json)
     [] k = 2 -> Strategy2(call.raw_json)
     [] k = 3 -> Strategy3(call.raw_json)
     [] k = 4 -> Strategy4(call.raw_json, call.raw_json)
     [] k = 5 -> Strategy5(call.raw_json)).parsed

\* C25: the strict parse comes first; when it fails the strategies are
\* attempted in the order 1..5, strategy k only if every strategy before it
\* failed and none after the first that succeeds, each on the original
\* payload; the value used is that of the first strategy that succeeds
C25_RepairCascadeOrder ==
  RepairDone =>
    LET tried == ret.val.attempted IN
    IF loads(call.raw_json) # ParseFailed
    THEN tried = <<>> /\ ret.val.parsed = loads(call.raw_json)
    ELSE /\ tried # <<>>
         /\ \A j \in DOMAIN tried : tried[j] = j
         /\ \A j \in 1..(Len(tried) - 1) : OnPayload(j) = ParseFailed
         /\ Len(tried) < 5 => OnPayload(Len(tried)) # ParseFailed
         /\ ret.val.fixed = (OnPayload(Len(tried)) # ParseFailed)
         /\ ret.val.fixed => ret.val.parsed = OnPayload(Len(tried))

\* strategy 5 repaired the payload after the strict parse and strategies 1
\* to 4 had failed on it
C25_Witness ==
  /\ RepairDone
  /\ ret.val.attempted = <<1, 2, 3, 4, 5>>
  /\ ret.val.fixed
  /\ ret.val.parsed = JArr(<<JTxt(<<>>), JTxt(<<":">>)>>)

\* the earliest position that holds [ or {, 0 when there is none
FirstBracket(text) ==
  IF \E p \in 1..Len(text) : text[p] \in {"[", "{"}
  THEN SetMin({p \in 1..Len(text) : text[p] \in {"[", "{"}})
  ELSE 0

\* the first balanced span that begins at the first opening bracket
FirstBalancedSpan(text) ==
  IF FirstBracket(text) = 0 \/ BalancedEnd(text, FirstBracket(text), 0, FALSE, FALSE) = 0
  THEN NoSpan
  ELSE SubSeq(text, FirstBracket(text), BalancedEnd(text, FirstBracket(text), 0, FALSE, FALSE))

\* C26: strategy 4 scans from the first opening bracket of the payload, [
\* or { whichever comes first, and extracts the first balanced span that
\* begins there
C26_ScanFromFirstBracket ==
  (RepairDone /\ 4 \in {ret.val.attempted[j] : j \in DOMAIN ret.val.attempted}) =>
    BalancedSpan(call.raw_json) = FirstBalancedSpan(call.raw_json)

\* a source that is not skipped comes after SOURCES[i]
MoreToExtract == \E j \in (i + 1)..Len(SOURCES) : SOURCES[j] \notin processed

\* C27: between the end of the processing of a source that was not skipped
\* and the first request for the next such source run_pipeline sleeps the
\* fixed delay of 2 seconds, whether the earlier source gave records, gave
\* none or failed extraction
C27_InterRequestDelay ==
  [][(pc = "extracted" /\ pc' = "loop" /\ MoreToExtract) =>
       clock' = clock + RateLimitDelay]_vars

(***************************************************************************)
(* Source lists that name a URL twice.                                     *)
(***************************************************************************)
RepeatedSources == {<<U1, U1>>, <<U2, U1, U2>>}

InitRepeated ==
  /\ NoHarness
  /\ variant = "model2"
  /\ API_KEY \in ApiKeys
  /\ SOURCES \in RepeatedSources
  /\ files \in InitialFiles
  /\ clock = 0
  /\ now_utc = FirstStamp
  /\ pc = "start"
  /\ i = 0
  /\ processed = {}
  /\ attempt = 0
  /\ requests = <<>>
  /\ waits = <<>>
  /\ raw = Unset
  /\ all_valid = <<>>
  /\ all_invalid = <<>>
  /\ high_quality = <<>>
  /\ manual_review = <<>>
  /\ run = 1

SpecRepeated == InitRepeated /\ [][NextRerun]_vars

(***************************************************************************)
(* Properties of runs over such lists, checked under SpecRepeated, where   *)
(* each extraction leaves one record, a grant or a failure.                *)
(***************************************************************************)
\* the run is between the load of the processed set and its return
InRun == pc \in {"loop", "extract", "extracted", "save"}

\* the occurrences among the first n sources that are not in the set
Occurrences(n) == {j \in 1..n : j <= Len(SOURCES) /\ SOURCES[j] \notin processed}

OccurrenceStep ==
  /\ InRun => processed' = processed
  /\ (AtSource /\ SOURCES[i] \notin processed) => pc' = "extract"

\* C28: the previously-processed set is not modified during a run: a URL
\* that the source list names twice and the set does not hold is extracted
\* once for each occurrence, and the records of every occurrence are
\* accumulated
C28_NoWithinRunDeduplication ==
  /\ [][OccurrenceStep]_vars
  /\ [](pc = "loop" => Len(all_valid) + Len(all_invalid) = Cardinality(Occurrences(i - 1)))

\* both occurrences of the one URL of the list were extracted and each left
\* a grant
C28_Witness ==
  /\ SOURCES = <<U1, U1>>
  /\ pc = "loop"
  /\ i = 3
  /\ Len(all_valid) = 2
  /\ Get(all_valid[1], "sourceURL") = JStr(U1)
  /\ Get(all_valid[2], "sourceURL") = JStr(U1)

\* every attempt of the call was made and raised
AllRaised ==
  /\ Len(requests) = retries
  /\ \A k \in DOMAIN requests : requests[k].kind = "raise"

\* the value for a failed extraction
FailureValue == IF variant = "semi" THEN ExtractionFailed(SOURCES[i]) ELSE JNull

\* an attempt that raises is followed by its backoff wait
WaitAfterRaiseStep ==
  (Replied /\ requests'[Len(requests')].kind = "raise") =>
    /\ waits' = Append(waits, BackoffWait(attempt))
    /\ clock' = clock + BackoffWait(attempt)

\* the call returns after retries waits that add up to
\* backoff * (2^retries - 1) seconds, jitter apart
WaitedEveryTime ==
  (pc = "extracted" /\ AllRaised) =>
    /\ waits = [k \in 1..retries |-> BackoffWait(k)]
    /\ clock = backoff * (Pow2(retries) - 1)
    /\ raw = FailureValue

\* C29: a backoff wait follows every attempt that raises, the last one
\* included: when all retries attempts raise, the function has waited
\* retries times, at least backoff * (2^retries - 1) seconds in all, before
\* it returns the failure value
C29_WaitAfterLastAttempt == [][WaitAfterRaiseStep]_vars /\ []WaitedEveryTime

\* extract_grant has returned its failure value 14 seconds after the call
C29_Witness ==
  /\ variant = "semi"
  /\ pc = "extracted"
  /\ AllRaised
  /\ waits = <<2, 4, 8>>
  /\ clock = 14
  /\ raw = ExtractionFailed(SOURCES[i])

(***************************************************************************)
(* The driver of the semi-automated pipeline (complete_pipeline.py).  Each *)
(* stage is a child process; outcomes[k] is what subprocess.run meets for  *)
(* stage k should it be started: the exit code of the child, or an OSError *)
(* because the child could not be started.  The log is the sequence of     *)
(* records handed to logging.                                              *)
(***************************************************************************)
\* lines 34-39
stages ==
  <<"Extraction", "Transformation + Validation", "Metrics Computation", "Google Drive Upload">>

Exited(returncode) == [returncode |-> returncode]

NotStarted == [oserror |-> TRUE]

Logged(level, message, stage_name) ==
  [level |-> level, message |-> message, stage |-> stage_name]

\* run_stage with an except block that does not raise again
run_stage_Swallowed(stage_name, outcome) ==
  IF outcome = Exited(0)
  THEN [log |-> <<Logged("info", "Starting stage", stage_name),
                  Logged("info", "completed successfully", stage_name)>>,
        raised |-> FALSE]
  ELSE [log |-> <<Logged("info", "Starting stage", stage_name),
                  Logged("error", "failed with error", stage_name)>>,
        raised |-> FALSE]

\* lines 20-27: subprocess.run(command, check=True) raises CalledProcessError
\* for an exit code other than 0, which is logged and raised again; any
\* other exception leaves run_stage as it is
run_stage(stage_name, outcome) ==
  IF outcome = Exited(0)
  THEN [log |-> <<Logged("info", "Starting stage", stage_name),
                  Logged("info", "completed successfully", stage_name)>>,
        raised |-> FALSE]
  ELSE IF outcome = NotStarted
  THEN [log |-> <<Logged("info", "Starting stage", stage_name)>>, raised |-> TRUE]
  ELSE [log |-> <<Logged("info", "Starting stage", stage_name),
                  Logged("error", "failed with error", stage_name)>>,
        raised |-> TRUE]

\* lines 41-42 from stage k on: the log so far and the stages started so far
RECURSIVE RunStages(_, _, _, _)
RunStages(k, outcomes, log, started) ==
  IF k > Len(stages)
  THEN [log |-> log, started |-> started, raised |-> FALSE]
  ELSE IF run_stage(stages[k], outcomes[k]).raised
  THEN [log |-> log \o run_stage(stages[k], outcomes[k]).log,
        started |-> Append(started, stages[k]), raised |-> TRUE]
  ELSE RunStages(k + 1, outcomes, log \o run_stage(stages[k], outcomes[k]).log,
                 Append(started, stages[k]))

AllCompleted == Logged("info", "All pipeline stages completed successfully.", "")

\* lines 30-45: the log, the stages whose command was run, and whether an
\* exception left main
main(outcomes) ==
  LET ran == RunStages(1, outcomes,
                       <<Logged("info", "Starting Semi-Automated Grant Data Pipeline", "")>>,
                       <<>>) IN
  IF ran.raised THEN ran
  ELSE [log |-> ran.log \o <<AllCompleted, Logged("info", "Logs saved to", "")>>,
        started |-> ran.started, raised |-> FALSE]

MaxExitCode == 2

RunOutcomes == {Exited(code) : code \in 0..MaxExitCode} \cup {NotStarted}

InitDriver ==
  /\ call \in {[fn |-> "main", outcomes |-> o] : o \in [1..Len(stages) -> RunOutcomes]}
  /\ ret = Pending
  /\ NoFrame

ApplyMain ==
  /\ call.fn = "main"
  /\ ~ret.done
  /\ ret' = Returned(main(call.outcomes))
  /\ UNCHANGED <<call, frame>>

NextDriver == ApplyMain

SpecDriver == InitDriver /\ [][NextDriver]_vars

(***************************************************************************)
(* Properties of the driver, checked under SpecDriver.                     *)
(***************************************************************************)
\* main has run
MainDone == call.fn = "main" /\ ret.done

\* the stages that would not exit with code 0
Failing == {k \in 1..Len(stages) : call.outcomes[k] # Exited(0)}

\* C30: the driver starts its stages in the order Extraction,
\* Transformation + Validation, Metrics Computation, Google Drive Upload,
\* stage k + 1 only after stage k has exited successfully; when a stage
\* fails the error leaves main, no later stage is started and the message
\* that all stages completed is never logged
C30_StagesInOrder ==
  MainDone =>
    /\ IsPrefix(ret.val.started, stages)
    /\ \A k \in 2..Len(ret.val.started) : call.outcomes[k - 1] = Exited(0)
    /\ IF Failing = {}
       THEN /\ ~ret.val.raised
            /\ ret.val.started = stages
            /\ ret.val.log[Len(ret.val.log) - 1] = AllCompleted
       ELSE /\ ret.val.raised
            /\ Len(ret.val.started) = SetMin(Failing)
            /\ \A n \in DOMAIN ret.val.log : ret.val.log[n] # AllCompleted

\* the third stage exited with code 1 after two stages that succeeded: the
\* upload was never started
C30_Witness ==
  /\ MainDone
  /\ call.outcomes[1] = Exited(0)
  /\ call.outcomes[2] = Exited(0)
  /\ call.outcomes[3] = Exited(1)
  /\ ret.val.started = <<"Extraction", "Transformation + Validation", "Metrics Computation">>
  /\ ret.val.raised
  /\ ret.val.log[Len(ret.val.log)] = Logged("error", "failed with error", "Metrics Computation")

====
